---- MODULE Spec2Model ----
(***************************************************************************)
(* Matterhorn spiking-neural-network library: the neuron state machines of *)
(* snn/soma.py and snn/layer.py, the containers of snn/container.py and    *)
(* the encoders of snn/encoder.py.                                         *)
(*                                                                         *)
(* Numbers are exact rationals <<n, d>> (d > 0, lowest terms); a tensor is *)
(* a one-dimensional sequence of rationals whose length is its shape, and  *)
(* a Python scalar is a value of kind "float" or "int".                    *)
(***************************************************************************)
EXTENDS Integers, Sequences, FiniteSets, TLC

\* ------------------------------------------------------------------------
\* Bounds of the model
\* ------------------------------------------------------------------------
MaxElems == 2
MaxSteps == 2
MaxKids == 2
MaxT == 2
MaxCalls == 2
MaxRun == 5

\* ------------------------------------------------------------------------
\* Exact rational arithmetic
\* ------------------------------------------------------------------------
Abs(n) == IF n < 0 THEN -n ELSE n

RECURSIVE GCD(_, _)
GCD(a, b) == IF b = 0 THEN a ELSE GCD(b, a % b)

R(n, d) ==
    LET s == IF d < 0 THEN -1 ELSE 1
        g == GCD(Abs(n), Abs(d))
    IN  IF n = 0 THEN <<0, 1>> ELSE <<(s * n) \div g, (s * d) \div g>>

I(n) == <<n, 1>>
RAdd(p, q) == R(p[1] * q[2] + q[1] * p[2], p[2] * q[2])
RSub(p, q) == R(p[1] * q[2] - q[1] * p[2], p[2] * q[2])
RMul(p, q) == R(p[1] * q[1], p[2] * q[2])
RDiv(p, q) == R(p[1] * q[2], p[2] * q[1])
RNeg(p) == <<-p[1], p[2]>>
RGe(p, q) == p[1] * q[2] >= q[1] * p[2]
RLe(p, q) == RGe(q, p)
RGt(p, q) == ~RGe(q, p)
RMax(p, q) == IF RGe(p, q) THEN p ELSE q

\* ------------------------------------------------------------------------
\* Values: Python scalars and tensors
\* ------------------------------------------------------------------------
F(r) == [k |-> "float", v |-> r, att |-> FALSE]
Z(r) == [k |-> "int", v |-> r, att |-> FALSE]
T(seq, att) == [k |-> "tensor", v |-> seq, att |-> att]
NoVal == [k |-> "none", v |-> <<>>, att |-> FALSE]

IsT(a) == a.k = "tensor"
ShapeOf(a) == IF IsT(a) THEN Len(a.v) ELSE 0
Max2(m, n) == IF m >= n THEN m ELSE n

\* torch broadcasting of two operands: a scalar or a length-1 axis stretches
Compatible(a, b) ==
    \/ ~IsT(a)
    \/ ~IsT(b)
    \/ Len(a.v) = Len(b.v)
    \/ Len(a.v) = 1
    \/ Len(b.v) = 1

At(a, i) == IF IsT(a) THEN (IF Len(a.v) = 1 THEN a.v[1] ELSE a.v[i]) ELSE a.v

\* surrogate.Rectangular forward: the Heaviside step of its argument
Heaviside(r) == IF RGe(r, I(0)) THEN I(1) ELSE I(0)

RECURSIVE Pow2(_)
Pow2(k) == IF k = 0 THEN I(1) ELSE IF k > 0 THEN RMul(I(2), Pow2(k - 1)) ELSE RDiv(Pow2(k + 1), I(2))

\* torch.exp is the tensor engine's; on rationals it is modelled by the step
\* 2^floor(r): exact at 0, positive everywhere and non-decreasing
ExpQ(r) == Pow2(r[1] \div r[2])

\* nn.ReLU, the default activation_function of the analog neurons
ReLU(r) == RMax(r, I(0))

\* the elementwise operators of the tensor engine, by name
Bin(op, p, q) ==
    CASE op = "add" -> RAdd(p, q)
      [] op = "sub" -> RSub(p, q)
      [] op = "mul" -> RMul(p, q)
      [] OTHER -> RDiv(p, q)

Un(op, p) ==
    CASE op = "neg" -> RNeg(p)
      [] op = "heaviside" -> Heaviside(p)
      [] op = "relu" -> ReLU(p)
      [] OTHER -> ExpQ(p)

Lift2(op, a, b) ==
    IF IsT(a) \/ IsT(b)
    THEN T([i \in 1..Max2(ShapeOf(a), ShapeOf(b)) |-> Bin(op, At(a, i), At(b, i))], TRUE)
    ELSE F(Bin(op, a.v, b.v))

Lift1(op, a) ==
    IF IsT(a) THEN T([i \in 1..Len(a.v) |-> Un(op, a.v[i])], TRUE) ELSE F(Un(op, a.v))

VAdd(a, b) == Lift2("add", a, b)
VSub(a, b) == Lift2("sub", a, b)
VMul(a, b) == Lift2("mul", a, b)
VDiv(a, b) == Lift2("div", a, b)
VNeg(a) == Lift1("neg", a)

\* torch.ones_like(x) scaled by a Python float: no autograd history
OnesLike(r, x) == T([i \in 1..Len(x.v) |-> r], FALSE)

\* ------------------------------------------------------------------------
\* Neuron configuration and state (snn/soma.py, snn/layer.py)
\* ------------------------------------------------------------------------
SomaTypes == {"RFR", "IF", "LIF", "QIF", "EIF", "Izhikevich", "AnalogRFR", "LIAF"}
NeuronTypes == SomaTypes \cup {"PFH", "SRM0Linear"}

\* the classes whose update law divides by tau_m
UsesTau(type) == type \in {"PFH", "RFR", "LIF", "QIF", "EIF", "AnalogRFR", "LIAF", "SRM0Linear"}

\* a promotion that also re-shapes a tensor whose shape is not the input's
init_tensor_reshaping(u, x) ==
    IF u.k = "float" THEN OnesLike(u.v, x)
    ELSE IF IsT(u) /\ Len(u.v) # Len(x.v) THEN OnesLike(u.v[1], x) ELSE u

\* init_tensor: a Python float is promoted to the shape of x, anything else kept
init_tensor(u, x) == IF u.k = "float" THEN OnesLike(u.v, x) ELSE u

\* a detach that hands back a fresh zero tensor
DetachVal_zeroed(u) == IF IsT(u) THEN T([i \in 1..Len(u.v) |-> I(0)], FALSE) ELSE u

\* detach: a tensor loses its autograd history, its value is kept
DetachVal(u) == IF IsT(u) THEN T(u.v, FALSE) ELSE u

\* a reset that refills the materialised tensor instead of restoring the placeholder
Skeleton_reset_in_place(c, st) ==
    [st EXCEPT !.u = IF IsT(st.u) THEN OnesLike(c.u_rest.v, st.u) ELSE c.u_rest]

\* PFHSkeleton.reset / RFRSkeleton.reset: u = u_rest
Skeleton_reset(c, st) == [st EXCEPT !.u = c.u_rest]

\* Izhikevich.reset: u = 0.0, w = 0.0
Izhikevich_reset(c, st) == [st EXCEPT !.u = F(I(0)), !.w = F(I(0))]

\* a reset that leaves the unit ready to fire
SRM0_reset_ready(c, st) == [st EXCEPT !.s = F(I(0)), !.r = F(I(1))]

\* SRM0Linear.reset: s = 0.0, r = 0.0
SRM0_reset(c, st) == [st EXCEPT !.s = F(I(0)), !.r = F(I(0))]

reset(c, st) ==
    CASE c.type = "Izhikevich" -> Izhikevich_reset(c, st)
      [] c.type = "SRM0Linear" -> SRM0_reset(c, st)
      [] OTHER -> Skeleton_reset(c, st)

\* RFRSkeleton.detach, PFHSkeleton.detach, Izhikevich.detach
detach(c, st) ==
    CASE c.type = "Izhikevich" -> [st EXCEPT !.u = DetachVal(st.u), !.w = DetachVal(st.w)]
      [] c.type = "SRM0Linear" -> st
      [] OTHER -> [st EXCEPT !.u = DetachVal(st.u)]

\* the state of an object whose __init__ has not yet called reset()
Unset == [u |-> NoVal, w |-> NoVal, s |-> NoVal, r |-> NoVal]

\* __init__ of each class: the configuration error it raises, if any
ConstructError(type, tau_m) ==
    IF type = "PFH" /\ tau_m.v = I(0) THEN "AssertionError" ELSE "none"

\* __init__ of each class: the stored hyperparameters
MakeCfg(type, tau_m, u_rest, weight) ==
    [type |-> type,
     tau_m |-> IF type \in {"IF", "Izhikevich"} THEN F(I(1)) ELSE tau_m,
     u_threshold |-> F(I(1)),
     u_rest |-> IF type = "Izhikevich" THEN F(I(0)) ELSE u_rest,
     a_0 |-> F(I(1)), u_c |-> F(R(4, 5)),
     u_t |-> F(I(8)), delta_t |-> F(I(1)),
     a |-> F(I(1)), b |-> F(I(1)),
     weight |-> weight]

\* a firing stage that needs the potential to exceed the threshold
f_firing_strict(c, u) ==
    T([i \in 1..Len(u.v) |->
          IF RGt(u.v[i], c.u_threshold.v) THEN I(1) ELSE I(0)], TRUE)

\* f_firing of every class: spiking_function(u - u_threshold)
f_firing(c, u) == Lift1("heaviside", VSub(u, c.u_threshold))

\* a reset that returns every element to u_rest as soon as one element fired
f_reset_global(c, u, o) ==
    T([i \in 1..Len(u.v) |->
          IF \E j \in 1..Len(o.v) : o.v[j] = I(1) THEN c.u_rest.v ELSE u.v[i]], TRUE)

\* a reset that subtracts the threshold instead of returning to u_rest
f_reset_soft(c, u, o) == VSub(u, VMul(c.u_threshold, o))

\* RFRSkeleton.f_reset: h = u * (1.0 - o) + u_rest * o
f_reset(c, u, o) == VAdd(VMul(u, VSub(F(I(1)), o)), VMul(c.u_rest, o))

\* an analog stage that hands back the spike
f_activation_spike(c, u) == f_firing(c, u)

\* AnalogRFRSkeleton.f_activation
f_activation(c, u) == Lift1("relu", VSub(u, c.u_rest))

InvTau(c) == VDiv(F(I(1)), c.tau_m)

\* a leaky integrator whose leak term is lost
LIF_f_response_no_leak(c, h, x) == VAdd(h, VMul(InvTau(c), x))

\* RFRSkeleton.f_response, LIF.f_response, LIAF.f_response
LIF_f_response(c, h, x) == VAdd(h, VMul(InvTau(c), VAdd(VNeg(VSub(h, c.u_rest)), x)))

\* an integrator that forgets the potential it had
IF_f_response_leaky(c, h, x) == VAdd(VSub(h, VSub(h, c.u_rest)), x)

\* IF.f_response
IF_f_response(c, h, x) == VAdd(h, x)

\* a quadratic integrator without its critical-voltage factor
QIF_f_response_linear(c, h, x) ==
    VAdd(h, VMul(InvTau(c), VAdd(VMul(VNeg(c.a_0), VSub(h, c.u_rest)), x)))

\* QIF.f_response
QIF_f_response(c, h, x) ==
    VAdd(h, VMul(InvTau(c),
        VAdd(VMul(VMul(VNeg(c.a_0), VSub(h, c.u_rest)), VSub(h, c.u_c)), x)))

\* EIF.f_response
EIF_f_response(c, h, x) ==
    VAdd(h, VMul(InvTau(c),
        VAdd(VAdd(VNeg(VSub(h, c.u_rest)),
                  VMul(c.delta_t, Lift1("exp", VDiv(VSub(h, c.u_t), c.delta_t)))), x)))

\* a recovery variable that is materialised but never updated
Izhikevich_w_stale(c, w, h) == init_tensor(w, h)

\* Izhikevich.f_response: the recovery variable after its update
Izhikevich_w(c, w, h) ==
    LET w1 == init_tensor(w, h)
    IN  VAdd(w1, VMul(c.a, VSub(VMul(c.b, h), w1)))

\* a potential law without the constant 140
Izhikevich_u_unbiased(c, wn, h, x) ==
    VAdd(h, VAdd(VSub(VAdd(VMul(VMul(F(R(1, 25)), h), h), VMul(F(I(5)), h)), wn), x))

\* Izhikevich.f_response: the potential, computed with the updated w
Izhikevich_u(c, wn, h, x) ==
    VAdd(h, VAdd(VSub(VAdd(VAdd(VMul(VMul(F(R(1, 25)), h), h), VMul(F(I(5)), h)),
                           F(I(140))), wn), x))

f_response(c, h, x) ==
    CASE c.type = "IF" -> IF_f_response(c, h, x)
      [] c.type = "QIF" -> QIF_f_response(c, h, x)
      [] c.type = "EIF" -> EIF_f_response(c, h, x)
      [] OTHER -> LIF_f_response(c, h, x)

Result(st, out, err) == [st |-> st, out |-> out, err |-> err]

\* Izhikevich.forward: RFRSkeleton.forward with the w update inside f_response
Izhikevich_forward(c, st, x) ==
    LET u0 == init_tensor(st.u, x)
        s0 == [st EXCEPT !.u = u0]
    IN  IF ~Compatible(u0, st.w)
        THEN Result(s0, NoVal, "RuntimeError")
        ELSE LET wn == Izhikevich_w(c, st.w, u0)
                 s1 == [s0 EXCEPT !.w = wn]
             IN  IF ~(Compatible(u0, x) /\ Compatible(wn, x))
                 THEN Result(s1, NoVal, "RuntimeError")
                 ELSE LET u1 == Izhikevich_u(c, wn, u0, x)
                          o == f_firing(c, u1)
                      IN  Result([s1 EXCEPT !.u = f_reset(c, u1, o)], o, "none")

\* RFRSkeleton.forward and AnalogRFRSkeleton.forward, with the overridden stages
RFR_forward(c, st, x) ==
    LET u0 == init_tensor(st.u, x)
        s0 == [st EXCEPT !.u = u0]
    IN  IF UsesTau(c.type) /\ c.tau_m.v = I(0)
        THEN Result(s0, NoVal, "ZeroDivisionError")
        ELSE IF ~Compatible(u0, x)
        THEN Result(s0, NoVal, "RuntimeError")
        ELSE LET u1 == f_response(c, u0, x)
                 o == f_firing(c, u1)
                 y == f_activation(c, u1)
             IN  Result([s0 EXCEPT !.u = f_reset(c, u1, o)],
                        IF c.type \in {"AnalogRFR", "LIAF"} THEN y ELSE o, "none")

\* PFHSkeleton.f_potential: h + (1.0 / tau_m) * x
f_potential(c, h, x) == VAdd(h, VMul(InvTau(c), x))

\* a forward that raises before it stores anything
PFH_forward_atomic(c, st, x) == Result(st, NoVal, "NotImplementedError")

\* PFHSkeleton.forward: f_history of the base skeleton raises after u was stored
PFH_forward(c, st, x) ==
    LET u0 == init_tensor(st.u, x)
    IN  IF ~Compatible(u0, x)
        THEN Result([st EXCEPT !.u = u0], NoVal, "RuntimeError")
        ELSE Result([st EXCEPT !.u = f_potential(c, u0, x)], NoVal, "NotImplementedError")

\* a synaptic trace that adds the spikes without the decay
f_synapse_response_no_leak(c, s, o) == VAdd(s, o)

\* SRM0Linear.f_synapse_response: s = (1.0 / tau_m) * s + o
f_synapse_response(c, s, o) == VAdd(VMul(InvTau(c), s), o)

RECURSIVE Dot(_, _, _)
Dot(row, s, j) == IF j = 0 THEN I(0) ELSE RAdd(Dot(row, s, j - 1), RMul(row[j], s[j]))

\* SRM0Linear.f_synapse_sum: nn.functional.linear(s, w), no bias
f_synapse_sum(w, s) == T([i \in 1..Len(w) |-> Dot(w[i], s.v, Len(s.v))], TRUE)

\* SRM0Linear.f_response: u = u_rest + (x * r)
SRM0_f_response(c, r, x) == VAdd(c.u_rest, VMul(x, r))

\* a refractory multiplier that is never lowered
SRM0_f_reset_none(u, o) == VSub(F(I(1)), VMul(F(I(0)), o))

\* SRM0Linear.f_reset: r = 1.0 - o
SRM0_f_reset(u, o) == VSub(F(I(1)), o)

\* a forward call that puts the state back before it raises
SRM0_forward_atomic(c, st, o) ==
    LET s0 == init_tensor(st.s, o)
        st0a == [st EXCEPT !.s = s0]
    IN  IF c.tau_m.v = I(0)
        THEN Result(st, NoVal, "ZeroDivisionError")
        ELSE IF ~Compatible(s0, o)
        THEN Result(st, NoVal, "RuntimeError")
        ELSE LET s1 == f_synapse_response(c, s0, o)
                 st1 == [st EXCEPT !.s = s1]
             IN  IF Len(s1.v) # Len(c.weight[1])
                 THEN Result(st, NoVal, "RuntimeError")
                 ELSE LET x == f_synapse_sum(c.weight, s1)
                          r0 == init_tensor(st.r, x)
                          u == SRM0_f_response(c, r0, x)
                          out == f_firing(c, u)
                      IN  Result([st1 EXCEPT !.r = SRM0_f_reset(u, out)], out, "none")

\* a forward call that clears the synaptic trace when a unit fires
SRM0_forward_clearing(c, st, o) ==
    LET s0 == init_tensor(st.s, o)
        st0a == [st EXCEPT !.s = s0]
    IN  IF c.tau_m.v = I(0)
        THEN Result(st0a, NoVal, "ZeroDivisionError")
        ELSE IF ~Compatible(s0, o)
        THEN Result(st0a, NoVal, "RuntimeError")
        ELSE LET s1 == f_synapse_response(c, s0, o)
                 st1 == [st EXCEPT !.s = s1]
             IN  IF Len(s1.v) # Len(c.weight[1])
                 THEN Result(st1, NoVal, "RuntimeError")
                 ELSE LET x == f_synapse_sum(c.weight, s1)
                          r0 == init_tensor(st.r, x)
                          u == SRM0_f_response(c, r0, x)
                          out == f_firing(c, u)
                          fired == \E i \in 1..Len(out.v) : out.v[i] = I(1)
                          s2 == IF fired THEN VMul(F(I(0)), s1) ELSE s1
                      IN  Result([st1 EXCEPT !.s = s2, !.r = SRM0_f_reset(u, out)],
                                 out, "none")

\* SRM0Linear.forward
SRM0_forward(c, st, o) ==
    LET s0 == init_tensor(st.s, o)
        st0a == [st EXCEPT !.s = s0]
    IN  IF c.tau_m.v = I(0)
        THEN Result(st0a, NoVal, "ZeroDivisionError")
        ELSE IF ~Compatible(s0, o)
        THEN Result(st0a, NoVal, "RuntimeError")
        ELSE LET s1 == f_synapse_response(c, s0, o)
                 st1 == [st EXCEPT !.s = s1]
             IN  IF Len(s1.v) # Len(c.weight[1])
                 THEN Result(st1, NoVal, "RuntimeError")
                 ELSE LET x == f_synapse_sum(c.weight, s1)
                          r0 == init_tensor(st.r, x)
                          u == SRM0_f_response(c, r0, x)
                          out == f_firing(c, u)
                      IN  Result([st1 EXCEPT !.r = SRM0_f_reset(u, out)], out, "none")

\* the layers of layer.py that end in val_to_spike
LayerTypes == {"MaxPool1d", "AvgPool1d", "Flatten", "Unflatten"}

\* a threshold test that leaves the boundary value out
val_to_spike_strict(x) ==
    T([i \in 1..Len(x.v) |-> IF RGt(x.v[i], R(1, 2)) THEN I(1) ELSE I(0)], x.att)

\* a threshold test that lets the value through where it is below the boundary
val_to_spike_leaky(x) ==
    T([i \in 1..Len(x.v) |-> IF RGe(x.v[i], R(1, 2)) THEN I(1) ELSE x.v[i]], x.att)

\* val_to_spike.forward: x.ge(0.5).to(x)
val_to_spike(x) ==
    T([i \in 1..Len(x.v) |-> IF RGe(x.v[i], R(1, 2)) THEN I(1) ELSE I(0)], x.att)

\* one pooling window: its elements, their maximum and their mean
Window(x, k, j) == [e \in 1..k |-> x.v[(j - 1) * k + e]]
WindowMax(w) == CHOOSE m \in {w[e] : e \in 1..Len(w)} : \A e \in 1..Len(w) : RGe(m, w[e])
WindowAvg(w) == Dot(w, [e \in 1..Len(w) |-> R(1, Len(w))], Len(w))

\* super().forward(x) of the layer: pooling with stride = kernel_size, or a
\* reshape that keeps every value
Layer_super_forward(c, x) ==
    CASE c.type = "MaxPool1d" ->
            T([j \in 1..(Len(x.v) \div c.kernel_size) |->
                  WindowMax(Window(x, c.kernel_size, j))], x.att)
      [] c.type = "AvgPool1d" ->
            T([j \in 1..(Len(x.v) \div c.kernel_size) |->
                  WindowAvg(Window(x, c.kernel_size, j))], x.att)
      [] OTHER -> x

\* forward of the pooling, Flatten and Unflatten layers; a pooling window longer
\* than the input raises
Layer_forward(c, st, x) ==
    IF c.type \in {"MaxPool1d", "AvgPool1d"} /\ Len(x.v) < c.kernel_size
    THEN Result(st, NoVal, "RuntimeError")
    ELSE Result(st, val_to_spike(Layer_super_forward(c, x)), "none")

\* SRM0Linear.forward on a batch [B, 1] of one-feature rows, held as the B
\* values of its column: nn.functional.linear maps every row by itself
SRM0_forward_rows(c, st, o) ==
    LET s0 == init_tensor(st.s, o)
        st0a == [st EXCEPT !.s = s0]
    IN  IF c.tau_m.v = I(0)
        THEN Result(st0a, NoVal, "ZeroDivisionError")
        ELSE IF ~Compatible(s0, o)
        THEN Result(st0a, NoVal, "RuntimeError")
        ELSE LET s1 == f_synapse_response(c, s0, o)
                 st1 == [st EXCEPT !.s = s1]
                 x == VMul(F(c.weight[1][1]), s1)
                 r0 == init_tensor(st.r, x)
             IN  IF ~Compatible(r0, x)
                 THEN Result([st1 EXCEPT !.r = r0], NoVal, "RuntimeError")
                 ELSE LET u == SRM0_f_response(c, r0, x)
                          out == f_firing(c, u)
                      IN  Result([st1 EXCEPT !.r = SRM0_f_reset(u, out)], out, "none")

\* module(x): the forward of the module's class
forward(c, st, x) ==
    CASE c.type = "PFH" -> PFH_forward(c, st, x)
      [] c.type \in LayerTypes -> Layer_forward(c, st, x)
      [] c.type = "SRM0Linear" /\ "batched" \in DOMAIN c -> SRM0_forward_rows(c, st, x)
      [] c.type = "SRM0Linear" -> SRM0_forward(c, st, x)
      [] c.type = "Izhikevich" -> Izhikevich_forward(c, st, x)
      [] OTHER -> RFR_forward(c, st, x)

\* ------------------------------------------------------------------------
\* State
\* ------------------------------------------------------------------------
VARIABLES
    npc,      \* neuron object: "new", "built" or "config_error"
    cfg,      \* its hyperparameters
    st,       \* its state variables u, w, s, r
    st0,      \* the state variables right after construction
    nlast,    \* the last call made on it
    nresets,  \* how many reset() calls ran in a row (capped at 2)
    nsteps,   \* forward calls made so far
    nout,     \* what the last forward call returned
    nerr,     \* what the last call raised
    nx,       \* the input of the last forward call
    npre,     \* the state variables as the last forward call found them
    nfed,     \* driven neuron: the inputs fed since construction or reset()
    nouts,    \* driven neuron: what those calls returned
    nshadow,  \* the state and output of the same calls with every detach() left out
    nrej,     \* the last input a forward call raised on
    kind,     \* the container under study: "Spatial", "Temporal" or "Container"
    kids,     \* its children in order (Temporal: the inner module; Container: 3 slots)
    rap,      \* Temporal.reset_after_process
    sap,      \* Temporal.step_after_process
    pc,       \* "idle", or "loop" inside Temporal.forward
    tx,        \* the input of the current or last forward call
    tt,        \* Temporal.forward: the loop index
    result,   \* Temporal.forward: the list of per-step outputs
    ty,        \* what the last forward call returned
    cerr,      \* what the last container call raised
    clast,     \* the last container call
    log,      \* the calls that call made on the children, in order
    pre,      \* the children as they were when that call began
    toggle,   \* the most recent of start_step / stop_step on the container
    fed,      \* reset_after_process false: the slices fed to the inner module
              \* since construction or the last reset() that reached it
    outs,     \* the outputs it gave for them
    chain,    \* no call raised since then
    follows,  \* the current forward call began right after one that returned
    returned, \* the last forward call returned
    calls,    \* forward calls begun so far
    epc,      \* encoder object: "new", "built", "failed", or "loop" inside forward
    ekind,    \* the encoder class of the last constructor call
    emax,     \* its max_value argument
    emin,     \* its min_value argument
    esteps,   \* its time_steps argument
    eprob,    \* its prob argument (Temporal encoder)
    ex,       \* encoder forward: the normalised input
    eseq,     \* encoder forward: y_seq
    et,       \* encoder forward: the loop index
    ey,       \* what the last encoder forward call returned
    ediv,     \* the range the last encoder forward call divided by
    eerr,     \* what the last encoder call raised
    eraw      \* the input tensor of the last encoder forward call

nvars == <<npc, cfg, st, st0, nlast, nresets, nsteps, nout, nerr, nx, npre, nfed, nouts, nshadow, nrej>>

cvars == <<kind, kids, rap, sap, pc, tx, tt, result, ty, cerr, clast, log, pre, toggle,
           fed, outs, chain, follows, returned, calls>>

evars == <<epc, ekind, emax, emin, esteps, eprob, ex, eseq, et, ey, ediv, eerr, eraw>>

vars == <<npc, cfg, st, st0, nlast, nresets, nsteps, nout, nerr, nx, npre, nfed, nouts,
          nshadow, nrej,
          kind, kids, rap, sap, pc, tx, tt, result, ty, cerr, clast, log, pre, toggle,
          fed, outs, chain, follows, returned, calls,
          epc, ekind, emax, emin, esteps, eprob, ex, eseq, et, ey, ediv, eerr, eraw>>

\* ------------------------------------------------------------------------
\* Inputs
\* ------------------------------------------------------------------------
XVals == {I(0), R(3, 2)}

RECURSIVE SeqsOf(_, _)
SeqsOf(S, n) ==
    IF n = 0 THEN {<<>>}
    ELSE {Append(q, e) : q \in SeqsOf(S, n - 1), e \in S}

\* the input tensors of one call: every shape up to MaxElems
Inputs == UNION {{T(q, FALSE) : q \in SeqsOf(XVals, n)} : n \in 1..MaxElems}

\* the analog values a layer may be handed
LayerVals == {I(0), R(1, 4), R(1, 2), R(3, 2), I(-1)}
LayerInputs == UNION {{T(q, FALSE) : q \in SeqsOf(LayerVals, n)} : n \in 1..MaxElems}

\* the currents an Izhikevich neuron is driven with: 0 fires it from rest
\* (the law adds 140), -141 keeps it below the threshold
IzhVals == {I(0), I(-141)}
IzhInputs == UNION {{T(q, FALSE) : q \in SeqsOf(IzhVals, n)} : n \in 1..MaxElems}

\* the arguments a and b of Izhikevich(a, b) besides the defaults 1.0, 1.0
IzhA == {F(R(1, 2))}
IzhB == {F(I(2)), F(I(-1))}

TauVals == {F(I(0)), F(I(1)), F(I(2))}
RestVals == {F(I(0)), Z(I(0)), F(R(-1, 2))}

\* kaiming-initialised weights of SRM0Linear(in_features, out_features)
Weights == {<< <<I(2)>> >>, << <<I(1), I(1)>>, <<I(2), I(-1)>> >>}
NoWeight == <<>>

NoCfg == MakeCfg("none", F(I(1)), F(I(0)), NoWeight)

\* ------------------------------------------------------------------------
\* Modules held by a container
\* ------------------------------------------------------------------------
Methods == {"reset", "start_step", "stop_step", "step_once"}

\* a child module: the lifecycle methods it exposes, its neuron and its step flag
Module(caps, c) == [present |-> TRUE, caps |-> caps, cfg |-> c, st |-> reset(c, Unset), flag |-> FALSE]

\* an absent child of Container (encoder, snn_model or decoder left None)
None == [present |-> FALSE, caps |-> {}, cfg |-> NoCfg, st |-> Unset, flag |-> FALSE]

NoOut == <<>>

ContainerIdle ==
    /\ kind = "none"
    /\ kids = <<>>
    /\ rap = TRUE
    /\ sap = FALSE
    /\ pc = "idle"
    /\ tx = <<>>
    /\ tt = 0
    /\ result = <<>>
    /\ ty = NoOut
    /\ cerr = "none"
    /\ clast = "none"
    /\ log = <<>>
    /\ pre = <<>>
    /\ toggle = "none"
    /\ fed = <<>>
    /\ outs = <<>>
    /\ chain = TRUE
    /\ follows = FALSE
    /\ returned = FALSE
    /\ calls = 0

NoDiv == <<>>

\* no encoder constructed yet
EncoderIdle ==
    /\ epc = "new"
    /\ ekind = "none"
    /\ emax = I(0)
    /\ emin = I(0)
    /\ esteps = 0
    /\ eprob = I(0)
    /\ ex = <<>>
    /\ eseq = <<>>
    /\ et = 0
    /\ ey = NoOut
    /\ ediv = NoDiv
    /\ eerr = "none"
    /\ eraw = <<>>

\* ------------------------------------------------------------------------
\* One neuron object and the calls made on it
\* ------------------------------------------------------------------------
NeuronIdle ==
    /\ npc = "new"
    /\ cfg = NoCfg
    /\ st = Unset
    /\ st0 = Unset
    /\ nlast = "none"
    /\ nresets = 0
    /\ nsteps = 0
    /\ nout = NoVal
    /\ nerr = "none"
    /\ nx = NoVal
    /\ npre = Unset
    /\ nfed = <<>>
    /\ nouts = <<>>
    /\ nshadow = [st |-> Unset, out |-> NoVal]
    /\ nrej = NoVal

\* __init__: store the hyperparameters, then self.reset()
Construct(type, tau_m, u_rest, weight) ==
    /\ npc = "new"
    /\ nlast' = "construct"
    /\ nerr' = ConstructError(type, tau_m)
    /\ IF ConstructError(type, tau_m) # "none"
       THEN /\ npc' = "config_error"
            /\ UNCHANGED <<cfg, st, st0, nshadow>>
       ELSE /\ npc' = "built"
            /\ cfg' = MakeCfg(type, tau_m, u_rest, weight)
            /\ st' = reset(cfg', Unset)
            /\ st0' = st'
            /\ nshadow' = [st |-> st', out |-> NoVal]
    /\ UNCHANGED <<nresets, nsteps, nout, nx, npre, nfed, nouts, nrej>>
    /\ UNCHANGED <<cvars, evars>>

NeuronConstruct ==
    \E type \in NeuronTypes, tau_m \in TauVals, u_rest \in RestVals :
        \E weight \in (IF type = "SRM0Linear" THEN Weights ELSE {NoWeight}) :
            Construct(type, tau_m, u_rest, weight)

\* Izhikevich(a, b): super().__init__(tau_m = 1.0, u_rest = 0.0), which ends in
\* self.reset(), then a and b are stored
IzhikevichConstruct ==
    /\ npc = "new"
    /\ \E a \in IzhA, b \in IzhB :
          cfg' = [MakeCfg("Izhikevich", F(I(1)), F(I(0)), NoWeight)
                      EXCEPT !.a = a, !.b = b]
    /\ st' = reset(cfg', Unset)
    /\ st0' = st'
    /\ nshadow' = [st |-> st', out |-> NoVal]
    /\ npc' = "built"
    /\ nlast' = "construct"
    /\ nerr' = "none"
    /\ UNCHANGED <<nresets, nsteps, nout, nx, npre, nfed, nouts, nrej>>
    /\ UNCHANGED <<cvars, evars>>

\* MaxPool1d(kernel_size), AvgPool1d(kernel_size), Flatten(), Unflatten(...):
\* layers without state
LayerConstruct ==
    /\ npc = "new"
    /\ \E type \in LayerTypes, k \in 1..MaxElems :
          cfg' = [kernel_size |-> k] @@ MakeCfg(type, F(I(1)), F(I(0)), NoWeight)
    /\ npc' = "built"
    /\ nlast' = "construct"
    /\ nerr' = "none"
    /\ UNCHANGED <<st, st0, nresets, nsteps, nout, nx, npre, nfed, nouts, nshadow, nrej>>
    /\ UNCHANGED <<cvars, evars>>

NeuronForward ==
    /\ npc = "built"
    /\ nsteps < MaxSteps
    /\ \E x \in (IF cfg.type \in LayerTypes THEN LayerInputs
                ELSE IF cfg.type = "Izhikevich" THEN IzhInputs ELSE Inputs) :
        \E res \in {forward(cfg, st, x)} :
            /\ st' = res.st
            /\ nout' = res.out
            /\ nerr' = res.err
            /\ nx' = x
            \* the same call on the same state gives the same result
            /\ \E twin \in (IF nshadow.st = st THEN {res}
                             ELSE {forward(cfg, nshadow.st, x)}) :
                   nshadow' = [st |-> twin.st, out |-> twin.out]
    /\ npre' = st
    /\ nsteps' = nsteps + 1
    /\ nlast' = "forward"
    /\ nresets' = 0
    /\ UNCHANGED <<npc, cfg, st0, nfed, nouts, nrej>>
    /\ UNCHANGED <<cvars, evars>>

NeuronDetach ==
    /\ npc = "built"
    /\ cfg.type \in NeuronTypes \ {"SRM0Linear"}
    /\ st' = detach(cfg, st)
    /\ nlast' = "detach"
    /\ nerr' = "none"
    /\ nresets' = 0
    /\ UNCHANGED <<npc, cfg, st0, nsteps, nout, nx, npre, nfed, nouts, nshadow, nrej>>
    /\ UNCHANGED <<cvars, evars>>

NeuronReset ==
    /\ npc = "built"
    /\ cfg.type \in NeuronTypes
    /\ st' = reset(cfg, st)
    /\ nshadow' = [nshadow EXCEPT !.st = reset(cfg, @)]
    /\ nlast' = "reset"
    /\ nerr' = "none"
    /\ nresets' = IF nresets < 2 THEN nresets + 1 ELSE 2
    /\ UNCHANGED <<npc, cfg, st0, nsteps, nout, nx, npre, nfed, nouts, nrej>>
    /\ UNCHANGED <<cvars, evars>>

NeuronNext ==
    \/ NeuronConstruct
    \/ IzhikevichConstruct
    \/ LayerConstruct
    \/ NeuronForward
    \/ NeuronDetach
    \/ NeuronReset

NeuronInit == NeuronIdle /\ ContainerIdle /\ EncoderIdle

SpecNeuron == NeuronInit /\ [][NeuronNext]_vars

\* ------------------------------------------------------------------------
\* One IF, LIF or SRM0Linear object driven over a longer run of timesteps
\* ------------------------------------------------------------------------
DriveTypes == {"IF", "LIF", "SRM0Linear"}
DriveTaus == {F(I(1)), F(I(2)), F(I(3)), F(R(2, 3)), F(R(1, 2)), F(I(-1))}
DriveRests == {F(I(0)), F(R(-1, 2)), F(I(1))}
DriveVals == {I(0), R(1, 2), R(2, 5), I(-2)}

\* the inputs of one timestep: a current for the somas, presynaptic spikes of
\* in_features elements for SRM0Linear
DriveInputs(c) ==
    IF c.type = "SRM0Linear"
    THEN {T(q, FALSE) : q \in SeqsOf({I(0), I(1)}, Len(c.weight[1]))}
    ELSE {T(<<v>>, FALSE) : v \in DriveVals}

DriveConstruct ==
    \E type \in DriveTypes, tau_m \in DriveTaus, u_rest \in DriveRests :
        \E weight \in (IF type = "SRM0Linear" THEN Weights ELSE {NoWeight}) :
            Construct(type, tau_m, u_rest, weight)

DriveForward ==
    /\ npc = "built"
    /\ Len(nfed) < MaxRun
    /\ \E x \in DriveInputs(cfg) :
        \E res \in {forward(cfg, st, x)} :
            /\ st' = res.st
            /\ nout' = res.out
            /\ nerr' = res.err
            /\ nx' = x
            /\ nfed' = Append(nfed, x)
            /\ nouts' = Append(nouts, res.out)
    /\ npre' = st
    /\ nlast' = "forward"
    /\ nresets' = 0
    /\ UNCHANGED <<npc, cfg, st0, nsteps, nshadow, nrej>>
    /\ UNCHANGED <<cvars, evars>>

DriveReset ==
    /\ npc = "built"
    /\ st' = reset(cfg, st)
    /\ nlast' = "reset"
    /\ nerr' = "none"
    /\ nresets' = IF nresets < 2 THEN nresets + 1 ELSE 2
    /\ nfed' = <<>>
    /\ nouts' = <<>>
    /\ UNCHANGED <<npc, cfg, st0, nsteps, nout, nx, npre, nshadow, nrej>>
    /\ UNCHANGED <<cvars, evars>>

DriveNext == DriveConstruct \/ DriveForward \/ DriveReset

SpecDrive == NeuronInit /\ [][DriveNext]_vars

\* ------------------------------------------------------------------------
\* One neuron fed inputs of changing shape
\* ------------------------------------------------------------------------
MaxShape == 3

ShapeTypes == {"IF", "LIF", "QIF", "EIF", "LIAF", "SRM0Linear"}

\* inputs of 1..MaxShape elements: all zero, or a current on the first one
ShapeInputs ==
    UNION {{T([i \in 1..n |-> I(0)], FALSE),
            T([i \in 1..n |-> IF i = 1 THEN R(3, 2) ELSE I(0)], FALSE)} : n \in 1..MaxShape}

ShapeConstruct ==
    \/ \E type \in ShapeTypes \ {"SRM0Linear"}, u_rest \in {F(I(0)), F(R(-1, 2))} :
           Construct(type, F(I(2)), u_rest, NoWeight)
    \/ /\ npc = "new"
       /\ cfg' = [batched |-> TRUE] @@ MakeCfg("SRM0Linear", F(I(2)), F(I(0)), << <<I(2)>> >>)
       /\ st' = reset(cfg', Unset)
       /\ st0' = st'
       /\ nshadow' = [st |-> st', out |-> NoVal]
       /\ npc' = "built"
       /\ nlast' = "construct"
       /\ nerr' = "none"
       /\ UNCHANGED <<nresets, nsteps, nout, nx, npre, nfed, nouts, nrej>>
       /\ UNCHANGED <<cvars, evars>>

ShapeForward ==
    /\ npc = "built"
    /\ nsteps < MaxSteps + 1
    \* QIF squares the potential at every call: its runs stop at three calls,
    \* where the exact fractions are still in range
    /\ cfg.type = "QIF" => nsteps < 3
    /\ \E x \in ShapeInputs :
        \E res \in {forward(cfg, st, x)} :
            /\ st' = res.st
            /\ nout' = res.out
            /\ nerr' = res.err
            /\ nx' = x
            /\ nrej' = IF res.err = "none" THEN nrej ELSE x
    /\ npre' = st
    /\ nsteps' = nsteps + 1
    /\ nlast' = "forward"
    /\ nresets' = 0
    /\ UNCHANGED <<npc, cfg, st0, nfed, nouts, nshadow>>
    /\ UNCHANGED <<cvars, evars>>

ShapeReset ==
    /\ npc = "built"
    /\ nlast = "forward"
    /\ st' = reset(cfg, st)
    /\ nlast' = "reset"
    /\ nerr' = "none"
    /\ nresets' = 1
    /\ UNCHANGED <<npc, cfg, st0, nsteps, nout, nx, npre, nfed, nouts, nshadow, nrej>>
    /\ UNCHANGED <<cvars, evars>>

ShapeNext == ShapeConstruct \/ ShapeForward \/ ShapeReset

SpecShapes == NeuronInit /\ [][ShapeNext]_vars

\* ------------------------------------------------------------------------
\* One layer fed spikes and analog values
\* ------------------------------------------------------------------------
\* spikes, the boundary value of val_to_spike and a value below it
SpikeVals == {I(0), I(1), R(1, 2), R(1, 4)}
SpikeInputs == UNION {{T(q, FALSE) : q \in SeqsOf(SpikeVals, n)} : n \in 1..MaxElems}

\* forward(x) of a pooling, Flatten or Unflatten layer
LayerForward ==
    /\ npc = "built"
    /\ cfg.type \in LayerTypes
    /\ nsteps < MaxSteps
    /\ \E x \in SpikeInputs :
        \E res \in {forward(cfg, st, x)} :
            /\ st' = res.st
            /\ nout' = res.out
            /\ nerr' = res.err
            /\ nx' = x
    /\ npre' = st
    /\ nsteps' = nsteps + 1
    /\ nlast' = "forward"
    /\ nresets' = 0
    /\ UNCHANGED <<npc, cfg, st0, nfed, nouts, nshadow, nrej>>
    /\ UNCHANGED <<cvars, evars>>

LayerNext == LayerConstruct \/ LayerForward

SpecLayers == NeuronInit /\ [][LayerNext]_vars

\* ------------------------------------------------------------------------
\* An Izhikevich neuron driven from reset
\* ------------------------------------------------------------------------
\* the currents of a run: 0 and -139 (which lands the potential on the
\* threshold) fire the neuron from rest, -141 does not
RunVals == {I(0), I(-139), I(-141)}
RunInputs == UNION {{T(q, FALSE) : q \in SeqsOf(RunVals, n)} : n \in 1..MaxElems}

\* every element fed since the last reset is >= u_threshold - 140
AllAboveOnset ==
    \A k \in 1..Len(nfed) : \A i \in 1..Len(nfed[k].v) :
        RGe(nfed[k].v[i], RSub(cfg.u_threshold.v, I(140)))

\* Izhikevich(a, b) with the default and with other arguments
RunConstruct ==
    /\ npc = "new"
    /\ \E a \in IzhA \cup {F(I(1))}, b \in IzhB \cup {F(I(1))} :
          cfg' = [MakeCfg("Izhikevich", F(I(1)), F(I(0)), NoWeight)
                      EXCEPT !.a = a, !.b = b]
    /\ st' = reset(cfg', Unset)
    /\ st0' = st'
    /\ npc' = "built"
    /\ nlast' = "construct"
    /\ nerr' = "none"
    /\ UNCHANGED <<nresets, nsteps, nout, nx, npre, nfed, nouts, nshadow, nrej>>
    /\ UNCHANGED <<cvars, evars>>

\* forward(x); a run is followed while it returns and until the first input
\* below the onset has been fed
RunForward ==
    /\ npc = "built"
    /\ nerr = "none"
    /\ Len(nfed) < MaxSteps + 1
    /\ AllAboveOnset
    /\ \E x \in RunInputs :
        \E res \in {forward(cfg, st, x)} :
            /\ st' = res.st
            /\ nout' = res.out
            /\ nerr' = res.err
            /\ nx' = x
            /\ nfed' = Append(nfed, x)
            /\ nouts' = Append(nouts, res.out)
    /\ npre' = st
    /\ nlast' = "forward"
    /\ nresets' = 0
    /\ UNCHANGED <<npc, cfg, st0, nsteps, nshadow, nrej>>
    /\ UNCHANGED <<cvars, evars>>

RunNext == RunConstruct \/ RunForward \/ DriveReset

SpecRuns == NeuronInit /\ [][RunNext]_vars

\* ------------------------------------------------------------------------
\* Containers (snn/container.py)
\* ------------------------------------------------------------------------

\* a probe that finds every method on every module
HasAttr_any(m, name) == m.present

\* hasattr(module, name)
HasAttr(m, name) == m.present /\ name \in m.caps

\* a child whose step hooks also put its neuron back to rest
Invoke_resetting(m, name) ==
    CASE name = "reset" -> [m EXCEPT !.st = reset(m.cfg, m.st)]
      [] name = "start_step" -> [m EXCEPT !.flag = TRUE, !.st = reset(m.cfg, m.st)]
      [] name = "stop_step" -> [m EXCEPT !.flag = FALSE, !.st = reset(m.cfg, m.st)]
      [] OTHER -> m

\* module.<name>() on a child that exposes it
Invoke(m, name) ==
    CASE name = "reset" -> [m EXCEPT !.st = reset(m.cfg, m.st)]
      [] name = "start_step" -> [m EXCEPT !.flag = TRUE]
      [] name = "stop_step" -> [m EXCEPT !.flag = FALSE]
      [] OTHER -> m

Acc(ks) == [kids |-> ks, log |-> <<>>, err |-> "none"]

\* module.<name>() on child i, without probing: raises if the child lacks it;
\* the log keeps the state the method found the child in
Call(acc, i, name) ==
    IF acc.err # "none" THEN acc
    ELSE IF ~HasAttr(acc.kids[i], name) THEN [acc EXCEPT !.err = "AttributeError"]
    ELSE [acc EXCEPT !.kids[i] = Invoke(@, name),
                     !.log = Append(@, <<i, name, acc.kids[i].st>>)]

\* the call made without the hasattr probe
Visit_unprobed(acc, i, name) == Call(acc, i, name)

\* if hasattr(module, name): module.<name>()
Visit(acc, i, name) ==
    IF acc.err # "none" \/ ~HasAttr(acc.kids[i], name) THEN acc ELSE Call(acc, i, name)

\* for module in self: if hasattr(module, name): module.<name>()
RECURSIVE VisitFrom(_, _, _)
VisitFrom(acc, i, name) ==
    IF i > Len(acc.kids) THEN acc ELSE VisitFrom(Visit(acc, i, name), i + 1, name)

Spatial_reset(ks) == VisitFrom(Acc(ks), 1, "reset")
Spatial_start_step(ks) == VisitFrom(Acc(ks), 1, "start_step")
Spatial_stop_step(ks) == VisitFrom(Acc(ks), 1, "stop_step")
Spatial_step_once(ks) == VisitFrom(Acc(ks), 1, "step_once")

Temporal_reset(acc) == Visit(acc, 1, "reset")
Temporal_start_step(acc) == Visit(acc, 1, "start_step")
Temporal_stop_step(acc) == Visit(acc, 1, "stop_step")
Temporal_step_once(acc) == Visit(acc, 1, "step_once")

\* the step hook run after a reset of its own
StepAfterProcess_late(flag, acc) ==
    IF flag THEN Temporal_step_once(Temporal_reset(acc)) ELSE acc

\* the step hook run whatever the flag says
StepAfterProcess_always(flag, acc) == Temporal_step_once(acc)

\* Temporal.forward, after the loop: if self.step_after_process: self.step_once()
StepAfterProcess(flag, acc) == IF flag THEN Temporal_step_once(acc) ELSE acc

\* the reset left out, and the reset run whatever the flag says
ResetAfterProcess_never(flag, acc) == acc
ResetAfterProcess_always(flag, acc) == Temporal_reset(acc)

\* Temporal.forward, after the loop: if self.reset_after_process: self.reset()
ResetAfterProcess(flag, acc) == IF flag THEN Temporal_reset(acc) ELSE acc

\* the time axis walked backwards
Slice_reversed(xs, i) == xs[Len(xs) - i]

\* Temporal.forward: the slice x[t] of loop index t
Slice(xs, i) == xs[i + 1]

Container_reset(ks) == Visit(Visit(Visit(Acc(ks), 1, "reset"), 2, "reset"), 3, "reset")
Container_start_step(ks) == Visit(Acc(ks), 2, "start_step")
Container_stop_step(ks) == Visit(Acc(ks), 2, "stop_step")
Container_step_once(ks) == Visit(Acc(ks), 2, "step_once")

\* child i applied to the value carried so far; an error ends the chain
Apply(acc, i) ==
    IF acc.err # "none" THEN acc
    ELSE LET m == acc.kids[i]
             res == forward(m.cfg, m.st, acc.val)
         IN  [kids |-> [acc.kids EXCEPT ![i].st = res.st],
              log |-> Append(acc.log, <<i, "forward", acc.val>>),
              err |-> res.err,
              val |-> res.out]

\* nn.Sequential.forward, inherited by Spatial: the children applied in order
RECURSIVE ApplyFrom(_, _)
ApplyFrom(acc, i) ==
    IF i > Len(acc.kids) THEN acc
    ELSE CHOOSE r \in {ApplyFrom(a, i + 1) : a \in {Apply(acc, i)}} : TRUE

Chain(ks, v) == [kids |-> ks, log |-> <<>>, err |-> "none", val |-> v]

Spatial_forward(ks, v) == ApplyFrom(Chain(ks, v), 1)

\* Container.forward: a stage that is None is skipped
Stage(acc, i) == IF acc.kids[i].present THEN Apply(acc, i) ELSE acc

\* Container.forward: encoder, then snn_model, then decoder
RECURSIVE StageFrom(_, _)
StageFrom(acc, i) ==
    IF i > 3 THEN acc
    ELSE CHOOSE r \in {StageFrom(a, i + 1) : a \in {Stage(acc, i)}} : TRUE

\* the stages run from the decoder back to the encoder
Container_forward_reversed(ks, v) == Stage(Stage(Stage(Chain(ks, v), 3), 2), 1)

Container_forward(ks, v) == StageFrom(Chain(ks, v), 1)

\* ------------------------------------------------------------------------
\* The containers that are studied and their inputs
\* ------------------------------------------------------------------------
AllCaps == {{}, {"reset"}, Methods, {"start_step", "stop_step", "step_once"}}

LIFCfg == MakeCfg("LIF", F(I(2)), F(I(0)), NoWeight)
SRM0Cfg == MakeCfg("SRM0Linear", F(I(2)), F(I(0)), << <<I(2)>> >>)
BadCfg == MakeCfg("LIF", F(I(0)), F(I(0)), NoWeight)

\* SRM0Linear(2, 2): raises on a slice of one element, after storing its trace
WideCfg == MakeCfg("SRM0Linear", F(I(2)), F(I(0)), << <<I(1), I(1)>>, <<I(2), I(-1)>> >>)

InnerCfgs == {LIFCfg, SRM0Cfg, BadCfg, WideCfg}

Children == {Module(caps, LIFCfg) : caps \in AllCaps}
Slots == Children \cup {None}

\* one time slice; the containers do not look at its shape
Slices == {T(<<v>>, FALSE) : v \in XVals}

\* a time-major input of T = 0..MaxT slices
TimeInputs == UNION {SeqsOf(Slices, n) : n \in 0..MaxT}

ContainerInit ==
    /\ NeuronIdle
    /\ EncoderIdle
    /\ pc = "idle"
    /\ tx = <<>>
    /\ tt = 0
    /\ result = <<>>
    /\ ty = NoOut
    /\ cerr = "none"
    /\ clast = "none"
    /\ log = <<>>
    /\ pre = <<>>
    /\ toggle = "none"
    /\ fed = <<>>
    /\ outs = <<>>
    /\ chain = TRUE
    /\ follows = FALSE
    /\ returned = FALSE
    /\ calls = 0
    /\ sap = FALSE
    /\ kind \in {"Spatial", "Temporal", "Container"}
    /\ rap \in (IF kind = "Temporal" THEN BOOLEAN ELSE {TRUE})
    /\ kids \in (CASE kind = "Spatial" -> UNION {SeqsOf(Children, n) : n \in 0..MaxKids}
                   [] kind = "Temporal" -> {<<Module(caps, c)>> : caps \in AllCaps, c \in InnerCfgs}
                   [] OTHER -> SeqsOf(Slots, 3))

\* what every lifecycle call records
Done(name, acc) ==
    /\ pc = "idle"
    /\ kids' = acc.kids
    /\ log' = acc.log
    /\ cerr' = acc.err
    /\ clast' = name
    /\ pre' = kids
    /\ UNCHANGED <<kind, rap, pc, tx, tt, result, ty, calls, follows, returned>>
    /\ UNCHANGED <<nvars, evars>>

Quiet == UNCHANGED <<sap, toggle, fed, outs, chain>>

SpatialReset == kind = "Spatial" /\ Done("reset", Spatial_reset(kids)) /\ Quiet
SpatialStartStep == kind = "Spatial" /\ Done("start_step", Spatial_start_step(kids)) /\ Quiet
SpatialStopStep == kind = "Spatial" /\ Done("stop_step", Spatial_stop_step(kids)) /\ Quiet
SpatialStepOnce == kind = "Spatial" /\ Done("step_once", Spatial_step_once(kids)) /\ Quiet

ContainerReset == kind = "Container" /\ Done("reset", Container_reset(kids)) /\ Quiet
ContainerStartStep == kind = "Container" /\ Done("start_step", Container_start_step(kids)) /\ Quiet
ContainerStopStep == kind = "Container" /\ Done("stop_step", Container_stop_step(kids)) /\ Quiet
ContainerStepOnce == kind = "Container" /\ Done("step_once", Container_step_once(kids)) /\ Quiet

\* an explicit reset() reached the inner module: the history starts again
Fresh(acc) == \E i \in 1..Len(acc.log) : acc.log[i][1] = 1 /\ acc.log[i][2] = "reset"

TemporalReset ==
    /\ kind = "Temporal"
    /\ Done("reset", Temporal_reset(Acc(kids)))
    /\ fed' = IF Fresh(Temporal_reset(Acc(kids))) THEN <<>> ELSE fed
    /\ outs' = IF Fresh(Temporal_reset(Acc(kids))) THEN <<>> ELSE outs
    /\ chain' = IF Fresh(Temporal_reset(Acc(kids))) THEN TRUE ELSE chain
    /\ UNCHANGED <<sap, toggle>>

TemporalStartStep ==
    /\ kind = "Temporal"
    /\ sap' = TRUE
    /\ toggle' = "start"
    /\ Done("start_step", Temporal_start_step(Acc(kids)))
    /\ UNCHANGED <<fed, outs, chain>>

TemporalStopStep ==
    /\ kind = "Temporal"
    /\ sap' = FALSE
    /\ toggle' = "stop"
    /\ Done("stop_step", Temporal_stop_step(Acc(kids)))
    /\ UNCHANGED <<fed, outs, chain>>

TemporalStepOnce ==
    /\ kind = "Temporal"
    /\ Done("step_once", Temporal_step_once(Acc(kids)))
    /\ Quiet

\* Temporal.forward: time_steps = x.shape[0]; result = []
TemporalForwardBegin ==
    /\ kind = "Temporal"
    /\ pc = "idle"
    /\ calls < MaxCalls
    /\ \E xin \in TimeInputs : tx' = xin
    /\ pc' = "loop"
    /\ tt' = 0
    /\ result' = <<>>
    /\ ty' = NoOut
    /\ cerr' = "none"
    /\ clast' = "forward"
    /\ log' = <<>>
    /\ pre' = kids
    /\ follows' = returned
    /\ calls' = calls + 1
    /\ UNCHANGED <<kind, kids, rap, sap, toggle, fed, outs, chain, returned>>
    /\ UNCHANGED <<nvars, evars>>

\* Temporal.forward: result.append(self.module(x[t]))
TemporalForwardStep ==
    /\ kind = "Temporal"
    /\ pc = "loop"
    /\ tt < Len(tx)
    /\ \E res \in {forward(kids[1].cfg, kids[1].st, Slice(tx, tt))} :
           /\ kids' = [kids EXCEPT ![1].st = res.st]
           /\ log' = Append(log, <<1, "forward", Slice(tx, tt)>>)
           /\ fed' = IF rap THEN fed ELSE Append(fed, Slice(tx, tt))
           /\ IF res.err = "none"
              THEN /\ result' = Append(result, res.out)
                   /\ outs' = IF rap THEN outs ELSE Append(outs, res.out)
                   /\ tt' = tt + 1
                   /\ UNCHANGED <<pc, cerr, chain, returned>>
              ELSE /\ cerr' = res.err
                   /\ pc' = "idle"
                   /\ chain' = rap
                   /\ returned' = FALSE
                   /\ UNCHANGED <<result, outs, tt>>
    /\ UNCHANGED <<kind, rap, sap, tx, ty, clast, pre, toggle, follows, calls>>
    /\ UNCHANGED <<nvars, evars>>

\* Temporal.forward: y = torch.stack(result), the step hook, the reset, return y
TemporalForwardEnd ==
    /\ kind = "Temporal"
    /\ pc = "loop"
    /\ tt = Len(tx)
    /\ pc' = "idle"
    /\ IF result = <<>>
       THEN /\ cerr' = "RuntimeError"
            /\ returned' = FALSE
            /\ UNCHANGED <<kids, log, ty, fed, outs, chain>>
       ELSE LET acc == ResetAfterProcess(rap, StepAfterProcess(sap, Acc(kids)))
            IN  /\ ty' = result
                /\ kids' = acc.kids
                /\ log' = log \o acc.log
                /\ cerr' = acc.err
                /\ returned' = (acc.err = "none")
                /\ UNCHANGED <<fed, outs, chain>>
    /\ UNCHANGED <<kind, rap, sap, tx, tt, result, clast, pre, toggle, follows, calls>>
    /\ UNCHANGED <<nvars, evars>>

\* what a forward call of Spatial or Container records
Forwarded(acc, xin) ==
    /\ pc = "idle"
    /\ calls < MaxCalls
    /\ tx' = <<xin>>
    /\ kids' = acc.kids
    /\ log' = acc.log
    /\ cerr' = acc.err
    /\ ty' = IF acc.err = "none" THEN <<acc.val>> ELSE NoOut
    /\ clast' = "forward"
    /\ pre' = kids
    /\ follows' = returned
    /\ returned' = (acc.err = "none")
    /\ calls' = calls + 1
    /\ UNCHANGED <<kind, rap, sap, pc, tt, result, toggle, fed, outs, chain>>
    /\ UNCHANGED <<nvars, evars>>

SpatialForward ==
    /\ kind = "Spatial"
    /\ \E xin \in Slices : Forwarded(Spatial_forward(kids, xin), xin)

ContainerForward ==
    /\ kind = "Container"
    /\ \E xin \in Slices : Forwarded(Container_forward(kids, xin), xin)

ContainerNext ==
    \/ SpatialReset \/ SpatialStartStep \/ SpatialStopStep \/ SpatialStepOnce
    \/ SpatialForward
    \/ TemporalReset \/ TemporalStartStep \/ TemporalStopStep \/ TemporalStepOnce
    \/ TemporalForwardBegin \/ TemporalForwardStep \/ TemporalForwardEnd
    \/ ContainerReset \/ ContainerStartStep \/ ContainerStopStep \/ ContainerStepOnce
    \/ ContainerForward

SpecContainers == ContainerInit /\ [][ContainerNext]_vars

\* ------------------------------------------------------------------------
\* Encoders (encoder.py): Poisson and Temporal
\* ------------------------------------------------------------------------
EncoderKinds == {"Poisson", "Temporal"}
RangeVals == {I(0), I(1), I(2)}
ProbVals == {R(3, 4)}
RandVals == {I(0), R(1, 2)}
EncoderInputs == UNION {SeqsOf(XVals, n) : n \in 1..MaxElems}

\* what the tensor engine gives for a division by zero: it raises nothing
Inf == <<1, 0>>
NegInf == <<-1, 0>>
NaN == <<0, 0>>
Finite(p) == p[2] # 0

\* a tensor element divided by a Python float
TDiv(p, q) ==
    IF q[1] # 0 THEN RDiv(p, q)
    ELSE IF p[1] > 0 THEN Inf ELSE IF p[1] < 0 THEN NegInf ELSE NaN

\* a tensor element times the integer time_steps
TMul(p, n) ==
    IF Finite(p) THEN RMul(p, I(n))
    ELSE IF n = 0 THEN NaN ELSE p

\* r.le(x) for a finite r
TLe(r, p) == IF Finite(p) THEN RLe(r, p) ELSE p = Inf

\* (t + 0.0 - x).ge(0.0)
TGe0(t, p) == IF Finite(p) THEN RGe(RSub(I(t), p), I(0)) ELSE p = NegInf

\* the constructor with the range check left out
EncoderConstructError_unchecked(max_value, min_value) == "none"

\* assert max_value > min_value
EncoderConstructError(max_value, min_value) ==
    IF RGt(max_value, min_value) THEN "none" ELSE "AssertionError"

\* Poisson.forward: x = (x - min_value) / (max_value - min_value)
Poisson_normalise(x, max_value, min_value) ==
    [i \in 1..Len(x) |-> TDiv(RSub(x[i], min_value), RSub(max_value, min_value))]

\* Temporal.forward: x = (x - min_value) / (max_value - min_value) * time_steps
Temporal_normalise(x, max_value, min_value, time_steps) ==
    [i \in 1..Len(x) |->
        TMul(TDiv(RSub(x[i], min_value), RSub(max_value, min_value)), time_steps)]

\* Poisson.forward: r.le(x).to(x) for the random tensor r
Poisson_step(x, r) ==
    [i \in 1..Len(x) |-> IF TLe(r[i], x[i]) THEN I(1) ELSE I(0)]

\* an onset test that looks one timestep ahead
Temporal_step_early(x, t, rnd, prob) ==
    [i \in 1..Len(x) |->
        RMul(IF TGe0(t + 1, x[i]) THEN I(1) ELSE I(0),
             IF RLe(rnd[i], prob) THEN I(1) ELSE I(0))]

\* Temporal.forward: f * r for the random tensor rnd
Temporal_step(x, t, rnd, prob) ==
    [i \in 1..Len(x) |->
        RMul(IF TGe0(t, x[i]) THEN I(1) ELSE I(0),
             IF RLe(rnd[i], prob) THEN I(1) ELSE I(0))]

\* Poisson(time_steps, max_value, min_value), Temporal(time_steps, max_value,
\* min_value, prob); a failed constructor leaves no object behind
EncoderConstruct ==
    /\ epc \in {"new", "built", "failed"}
    /\ \E k \in EncoderKinds, mx \in RangeVals, mn \in RangeVals,
          n \in 0..MaxT, p \in ProbVals :
          /\ ekind' = k
          /\ emax' = mx
          /\ emin' = mn
          /\ esteps' = n
          /\ eprob' = IF k = "Temporal" THEN p ELSE I(0)
          /\ eerr' = EncoderConstructError(mx, mn)
          /\ epc' = IF EncoderConstructError(mx, mn) = "none" THEN "built" ELSE "failed"
    /\ UNCHANGED <<ex, eseq, et, ey, ediv, eraw>>
    /\ UNCHANGED <<nvars, cvars>>

\* forward, up to the loop
EncoderForwardBegin ==
    /\ epc = "built"
    /\ \E x \in EncoderInputs :
          /\ ex' = IF ekind = "Poisson" THEN Poisson_normalise(x, emax, emin)
                   ELSE Temporal_normalise(x, emax, emin, esteps)
          /\ eraw' = x
    /\ ediv' = RSub(emax, emin)
    /\ eseq' = <<>>
    /\ et' = 0
    /\ ey' = NoOut
    /\ eerr' = "none"
    /\ epc' = "loop"
    /\ UNCHANGED <<ekind, emax, emin, esteps, eprob>>
    /\ UNCHANGED <<nvars, cvars>>

\* forward: one pass of for t in range(self.time_steps)
EncoderForwardStep ==
    /\ epc = "loop"
    /\ et < esteps
    /\ \E r \in SeqsOf(RandVals, Len(ex)) :
          eseq' = Append(eseq, IF ekind = "Poisson" THEN Poisson_step(ex, r)
                               ELSE Temporal_step(ex, et, r, eprob))
    /\ et' = et + 1
    /\ UNCHANGED <<epc, ekind, emax, emin, esteps, eprob, ex, ey, ediv, eerr, eraw>>
    /\ UNCHANGED <<nvars, cvars>>

\* forward: y = torch.stack(y_seq); an empty list raises
EncoderForwardEnd ==
    /\ epc = "loop"
    /\ et = esteps
    /\ IF eseq = <<>>
       THEN eerr' = "RuntimeError" /\ ey' = ey
       ELSE eerr' = eerr /\ ey' = eseq
    /\ epc' = "built"
    /\ UNCHANGED <<ekind, emax, emin, esteps, eprob, ex, eseq, et, ediv, eraw>>
    /\ UNCHANGED <<nvars, cvars>>

EncoderNext ==
    \/ EncoderConstruct
    \/ EncoderForwardBegin
    \/ EncoderForwardStep
    \/ EncoderForwardEnd

EncoderInit == NeuronIdle /\ ContainerIdle /\ EncoderIdle

SpecEncoder == EncoderInit /\ [][EncoderNext]_vars

\* ------------------------------------------------------------------------
\* One Temporal encoder and its forward calls
\* ------------------------------------------------------------------------
\* ranges that put an input of 3/2 on max_value, inside the range and above it
OnsetMax == {R(3, 2), I(2)}
OnsetMin == {I(0), I(1), I(2)}

\* a spike probability that the random draw 1/2 does not pass
OnsetProb == {R(1, 4)}

\* Temporal(time_steps, max_value, min_value, prob), constructed once
OnsetConstruct ==
    /\ epc = "new"
    /\ \E mx \in OnsetMax, mn \in OnsetMin, n \in 0..MaxT, p \in OnsetProb :
          /\ ekind' = "Temporal"
          /\ emax' = mx
          /\ emin' = mn
          /\ esteps' = n
          /\ eprob' = p
          /\ eerr' = EncoderConstructError(mx, mn)
          /\ epc' = IF EncoderConstructError(mx, mn) = "none" THEN "built" ELSE "failed"
    /\ UNCHANGED <<ex, eseq, et, ey, ediv, eraw>>
    /\ UNCHANGED <<nvars, cvars>>

OnsetNext ==
    \/ OnsetConstruct
    \/ EncoderForwardBegin
    \/ EncoderForwardStep
    \/ EncoderForwardEnd

SpecOnset == EncoderInit /\ [][OnsetNext]_vars

\* ------------------------------------------------------------------------
\* Properties of one neuron object
\* ------------------------------------------------------------------------

\* C2: for every neuron class, after any run of forward and detach calls a
\* reset() leaves every state variable equal to its value right after
\* construction, and so does a second reset() made immediately afterwards.
C2_ResetRestoresInitialState ==
    (npc = "built" /\ nresets >= 1) => st = st0

C2_Witness ==
    /\ npc = "built"
    /\ cfg.type = "Izhikevich"
    /\ nsteps >= 2
    /\ nresets = 2

\* C9: every neuron class that takes tau_m rejects tau_m = 0 at construction,
\* so no built instance has tau_m = 0 and no forward call divides by zero.
C9_ZeroTauRejected ==
    /\ (npc = "built" /\ UsesTau(cfg.type)) => cfg.tau_m.v # I(0)
    /\ nerr # "ZeroDivisionError"

LastForwardReturned == npc = "built" /\ nlast = "forward" /\ nerr = "none"

SpikingTypes == {"RFR", "IF", "LIF", "QIF", "EIF", "Izhikevich"}

\* the potential of the last forward call after its response stage
PostResponse ==
    LET h == init_tensor(npre.u, nx)
    IN  IF cfg.type = "Izhikevich"
        THEN Izhikevich_u(cfg, Izhikevich_w(cfg, npre.w, h), h, nx)
        ELSE f_response(cfg, h, nx)

\* C11: a forward call of an RFR-family neuron fires on the post-response
\* potential U and then resets: the spike is 1 exactly where U >= u_threshold,
\* and the stored potential is u_rest where it fired and U where it did not.
C11_ResponseFireReset ==
    (LastForwardReturned /\ cfg.type \in SomaTypes) =>
        \A U \in {PostResponse} :
            /\ Len(st.u.v) = Len(U.v)
            /\ \A i \in 1..Len(U.v) :
                  LET fired == RGe(U.v[i], cfg.u_threshold.v)
                  IN  /\ cfg.type \in SpikingTypes =>
                            nout.v[i] = IF fired THEN I(1) ELSE I(0)
                      /\ st.u.v[i] = IF fired THEN cfg.u_rest.v ELSE U.v[i]

C11_Witness ==
    /\ LastForwardReturned
    /\ cfg.type \in SpikingTypes
    /\ IsT(npre.u)
    /\ cfg.u_rest.v # I(0)
    /\ nout.v = <<I(1), I(0)>>
    /\ st.u.v[1] = cfg.u_rest.v
    /\ st.u.v[2] # cfg.u_rest.v

\* C12: every value returned by the forward of a spiking soma, of SRM0Linear
\* and of a layer that ends in val_to_spike is exactly 0 or 1.
C12_SpikesAreBinary ==
    (LastForwardReturned /\ cfg.type \in SpikingTypes \cup LayerTypes \cup {"SRM0Linear"}) =>
        \A i \in 1..Len(nout.v) : nout.v[i] \in {I(0), I(1)}

C12_Witness ==
    /\ LastForwardReturned
    /\ cfg.type = "AvgPool1d"
    /\ cfg.kernel_size = 2
    /\ nx.v = <<R(1, 4), R(3, 2)>>
    /\ nout.v = <<I(1)>>

\* ------------------------------------------------------------------------
\* Properties of a driven neuron
\* ------------------------------------------------------------------------
RestBelowThreshold == ~RGe(cfg.u_rest.v, cfg.u_threshold.v)

\* the synaptic sum of unit i for the stored trace s
SynapticSum(i) == Dot(cfg.weight[i], st.s.v, Len(st.s.v))

Stored(a, i) == IF IsT(a) THEN a.v[i] ELSE a.v

\* the SRM0 update written out unit by unit from the state before the call
RefS(j) == RAdd(RDiv(Stored(npre.s, j), cfg.tau_m.v), nx.v[j])
RefX(i) == Dot(cfg.weight[i], [j \in 1..Len(nx.v) |-> RefS(j)], Len(nx.v))
RefU(i) == RAdd(cfg.u_rest.v, RMul(RefX(i), Stored(npre.r, i)))
RefO(i) == IF RGe(RefU(i), cfg.u_threshold.v) THEN I(1) ELSE I(0)

ConstantDrive == nfed # <<>> /\ \A j \in 1..Len(nfed) : nfed[j] = nfed[1]
DriveC == nfed[1].v[1]

\* u_rest + n * c reaches the threshold
Reaches(n) == RGe(RAdd(cfg.u_rest.v, RMul(I(n), DriveC)), cfg.u_threshold.v)

\* the first step at which it does
FirstSpike == CHOOSE n \in 1..(MaxRun + 1) : Reaches(n) /\ \A m \in 1..(n - 1) : ~Reaches(m)

\* C15: an IF neuron with u_rest < u_threshold, started from reset and fed a
\* constant c > 0, holds u_rest + k*c after k steps without a spike, emits 0
\* before the first step n with u_rest + n*c >= u_threshold, emits 1 at step n
\* and is back at u_rest, and repeats this with period n.
C15_IFAccumulatesAndFires ==
    (npc = "built" /\ cfg.type = "IF" /\ RestBelowThreshold /\ ConstantDrive
        /\ RGt(DriveC, I(0)) /\ \E n \in 1..(MaxRun + 1) : Reaches(n)) =>
        \A n \in {FirstSpike} :
            /\ st.u.v[1] = RAdd(cfg.u_rest.v, RMul(I(Len(nfed) % n), DriveC))
            /\ \A j \in 1..Len(nfed) :
                  nouts[j].v[1] = IF j % n = 0 THEN I(1) ELSE I(0)

C15_Witness ==
    /\ npc = "built"
    /\ cfg.type = "IF"
    /\ cfg.u_rest.v = R(-1, 2)
    /\ ConstantDrive
    /\ DriveC = R(2, 5)
    /\ Len(nfed) = 5
    /\ nouts[4].v[1] = I(1)
    /\ st.u.v[1] = R(-1, 10)

RAbs(r) == IF RGe(r, I(0)) THEN r ELSE RNeg(r)

\* the first element of the potential the last forward call found and left
PreU == IF IsT(npre.u) THEN npre.u.v[1] ELSE npre.u.v
PostU == st.u.v[1]

\* the last forward call of an LIF neuron with u_rest = 0 had zero input
ZeroInputStep ==
    /\ LastForwardReturned
    /\ cfg.type = "LIF"
    /\ cfg.u_rest.v = I(0)
    /\ nfed # <<>>
    /\ nx.v[1] = I(0)

\* the factor 1 - 1/tau_m of one zero-input step
DecayFactor == RSub(I(1), RDiv(I(1), cfg.tau_m.v))

\* C16 (as stated): for every nonzero tau_m a zero-input step of an LIF neuron
\* with u_rest = 0 does not increase |U| and emits no spike.
C16_ZeroInputDecaysForEveryTau ==
    ZeroInputStep => (RLe(RAbs(PostU), RAbs(PreU)) /\ nout.v[1] = I(0))

\* C16 (amended): for tau_m > 1/2 a zero-input step of an LIF neuron with
\* u_rest = 0 < u_threshold leaves |U| no larger, and strictly smaller by the
\* factor |1 - 1/tau_m| < 1 or at 0, so |U| falls below any epsilon after
\* finitely many steps; for tau_m >= 1 no spike is emitted during the decay.
C16_ZeroInputDecays ==
    (ZeroInputStep /\ RGt(cfg.tau_m.v, R(1, 2))) =>
        /\ RLe(RAbs(PostU), RAbs(PreU))
        /\ PostU = I(0) \/ PostU = RMul(DecayFactor, PreU)
        /\ RGt(I(1), RAbs(DecayFactor))
        /\ RGe(cfg.tau_m.v, I(1)) =>
              (nout.v[1] = I(0) /\ PostU = RMul(DecayFactor, PreU))

C16_Witness ==
    /\ ZeroInputStep
    /\ cfg.tau_m.v = I(2)
    /\ Len(nfed) >= 3
    /\ nfed[Len(nfed) - 1].v[1] = I(0)
    /\ PreU = R(-1, 2)
    /\ PostU = R(-1, 4)
    /\ nout.v[1] = I(0)

\* the models' laws for one element, from the potential U_prev the call found
\* and the input X it was given
LawH(i) == At(npre.u, i)
LawX(i) == At(nx, i)
LawLeak(i) == RSub(LawH(i), cfg.u_rest.v)
LawDU(i) ==
    CASE cfg.type = "IF" -> LawX(i)
      [] cfg.type = "LIF" ->
            RMul(RDiv(I(1), cfg.tau_m.v), RAdd(RNeg(LawLeak(i)), LawX(i)))
      [] cfg.type = "QIF" ->
            RMul(RDiv(I(1), cfg.tau_m.v),
                 RAdd(RNeg(RMul(RMul(cfg.a_0.v, LawLeak(i)),
                                RSub(LawH(i), cfg.u_c.v))), LawX(i)))
LawU(i) == RAdd(LawH(i), LawDU(i))

IzhWPrev(i) == At(npre.w, i)
IzhWNew(i) ==
    RAdd(IzhWPrev(i), RMul(cfg.a.v, RSub(RMul(cfg.b.v, LawH(i)), IzhWPrev(i))))
IzhU(i) ==
    RAdd(LawH(i),
         RAdd(RSub(RAdd(RAdd(RMul(R(4, 100), RMul(LawH(i), LawH(i))),
                             RMul(I(5), LawH(i))), I(140)), IzhWNew(i)), LawX(i)))

\* C18: an Izhikevich step first updates w_new = w + a (b U_prev - w) from the
\* potential before the step, then adds dU = 0.04 U_prev^2 + 5 U_prev + 140 -
\* w_new + X; w is materialised from its placeholder on first use, stored as
\* w_new, left alone by the spike-driven reset, and returned to 0 by reset().
C18_IzhikevichStep ==
    /\ (LastForwardReturned /\ cfg.type = "Izhikevich") =>
          /\ IsT(st.w)
          /\ \A i \in 1..Len(st.w.v) : st.w.v[i] = IzhWNew(i)
          /\ \A i \in 1..Len(st.u.v) :
                LET fired == RGe(IzhU(i), cfg.u_threshold.v)
                IN  /\ nout.v[i] = IF fired THEN I(1) ELSE I(0)
                    /\ st.u.v[i] = IF fired THEN I(0) ELSE IzhU(i)
    /\ (npc = "built" /\ cfg.type = "Izhikevich" /\ nlast = "reset") =>
          st.w = F(I(0))

C18_Witness ==
    /\ LastForwardReturned
    /\ cfg.type = "Izhikevich"
    /\ cfg.a.v = R(1, 2)
    /\ cfg.b.v = I(2)
    /\ IsT(npre.w)
    /\ LawH(1) = I(-1)
    /\ IzhWPrev(1) = I(0)
    /\ st.w.v[1] = I(-1)
    /\ nout.v[1] = I(1)
    /\ st.u.v[1] = I(0)

AnalogTypes == {"AnalogRFR", "LIAF"}

\* the potential of element i after the response stage of an analog neuron
AnalogU(i) ==
    RAdd(LawH(i), RMul(RDiv(I(1), cfg.tau_m.v), RAdd(RNeg(LawLeak(i)), LawX(i))))

C20_StateHasInputShape ==
    (LastForwardReturned /\ cfg.type \in NeuronTypes) =>
        IF cfg.type = "SRM0Linear"
        THEN /\ IsT(st.s) /\ Len(st.s.v) = Len(nx.v)
             /\ IsT(st.r) /\ Len(st.r.v) = Len(cfg.weight)
        ELSE /\ IsT(st.u) /\ Len(st.u.v) = Len(nx.v)
             /\ cfg.type = "Izhikevich" => (IsT(st.w) /\ Len(st.w.v) = Len(nx.v))

\* a value without its autograd history
Val(a) == [k |-> a.k, v |-> a.v]
StVals(s) == [f \in DOMAIN s |-> Val(s[f])]

\* C21: detach() on a soma neuron keeps the value of u (and of w for
\* Izhikevich), leaves a scalar placeholder as it is, and so a run with
\* detach() calls anywhere between the forward calls stores and returns the
\* values of the same run without them.
C21_DetachKeepsValues ==
    (npc = "built" /\ cfg.type \in NeuronTypes \ {"SRM0Linear"}) =>
        /\ StVals(st) = StVals(nshadow.st)
        /\ Val(nout) = Val(nshadow.out)
        /\ \A f \in DOMAIN st : ~IsT(st[f]) => st[f] = nshadow.st[f]

C21_Witness ==
    /\ LastForwardReturned
    /\ cfg.type = "Izhikevich"
    /\ IsT(npre.u) /\ ~npre.u.att
    /\ IsT(npre.w) /\ ~npre.w.att
    /\ npre.u.v # npre.w.v
    /\ st.w.v = nshadow.st.w.v
    /\ st.w.v[1] # I(0)
    /\ nout = nshadow.out

\* ------------------------------------------------------------------------
\* Properties of the containers
\* ------------------------------------------------------------------------

\* T manual calls of the inner module on the slices, in order, from state s
ManualCall(c, acc, v) ==
    CHOOSE r \in {[st |-> res.st,
                   outs |-> IF res.err = "none" THEN Append(acc.outs, res.out)
                            ELSE acc.outs,
                   err |-> res.err] : res \in {forward(c, acc.st, v)}} : TRUE

RECURSIVE ManualFrom(_, _, _, _)
ManualFrom(c, acc, xs, i) ==
    IF i > Len(xs) \/ acc.err # "none" THEN acc
    ELSE CHOOSE r \in {ManualFrom(c, a, xs, i + 1) : a \in {ManualCall(c, acc, xs[i])}} : TRUE

Manual(c, s, xs) == ManualFrom(c, [st |-> s, outs |-> <<>>, err |-> "none"], xs, 1)

Initial(m) == reset(m.cfg, Unset)

IsForward(e) == e[2] = "forward"
ForwardCalls == SelectSeq(log, IsForward)
HookAt == {i \in 1..Len(log) : log[i][2] = "step_once"}
Called(i, name) == \E j \in 1..Len(log) : log[j][1] = i /\ log[j][2] = name
HasSpike(outputs) == \E i \in 1..Len(outputs) : outputs[i].v[1] = I(1)

ForwardReturned == kind = "Temporal" /\ clast = "forward" /\ pc = "idle" /\ cerr = "none"

\* C1: Temporal.forward calls the inner module once per slice, on x[0], x[1],
\* ... in increasing order, each call finished before the next; inside the loop
\* and at the return the outputs and the inner state equal those of manual
\* calls on the same slices from the state the call started in.
C1_TemporalEqualsManualCalls ==
    (kind = "Temporal" /\ clast = "forward" /\ cerr = "none") =>
        LET n == IF pc = "loop" THEN tt ELSE Len(tx)
        IN  \A ref \in {Manual(pre[1].cfg, pre[1].st, SubSeq(tx, 1, n))} :
            /\ ForwardCalls = [i \in 1..n |-> <<1, "forward", tx[i]>>]
            /\ \A i \in 1..n : IsForward(log[i])
            /\ pc = "loop" => (result = ref.outs /\ kids[1].st = ref.st)
            /\ pc = "idle" => (ty = ref.outs /\ Len(ty) = Len(tx))

C1_Witness ==
    /\ ForwardReturned
    /\ Len(tx) = 2
    /\ tx[1] # tx[2]
    /\ ty[1] # ty[2]

\* C3 as stated: with reset_after_process true, after every forward call that
\* returns every neuron inside the inner module is in its initial state, and
\* the output of a call that follows depends on its own input only.
C3_ResetAfterEveryForward ==
    (ForwardReturned /\ rap) =>
        /\ kids[1].st = Initial(kids[1])
        /\ follows => ty = Manual(kids[1].cfg, Initial(kids[1]), tx).outs

\* C3 as amended: the same, for an inner module that exposes reset (the reset
\* reaches a neuron only through modules that each expose it).
C3_ResetAfterForwardWhenExposed ==
    (ForwardReturned /\ rap /\ HasAttr(kids[1], "reset")) =>
        /\ kids[1].st = Initial(kids[1])
        /\ follows => ty = Manual(kids[1].cfg, Initial(kids[1]), tx).outs

C3_Witness ==
    /\ ForwardReturned
    /\ rap
    /\ HasAttr(kids[1], "reset")
    /\ follows
    /\ Len(tx) = 2
    /\ HasSpike(ty)

\* C4: with reset_after_process false and no explicit reset in between, when a
\* forward call returns, the outputs of the successive forward calls,
\* concatenated along time, and the inner state after them equal those of one
\* run over the concatenated input from the initial state.
C4_StatePersistsAcrossCalls ==
    (ForwardReturned /\ ~rap /\ chain) =>
        \A ref \in {Manual(kids[1].cfg, Initial(kids[1]), fed)} :
            /\ outs = ref.outs
            /\ kids[1].st = ref.st

C4_Witness ==
    /\ ForwardReturned
    /\ ~rap
    /\ chain
    /\ calls = 2
    /\ Len(fed) = 4
    /\ Len(tx) = 2
    /\ HasSpike(ty)

\* C5: a forward call that returns invokes the inner module's step_once hook
\* exactly once, after the last timestep, if the most recent of start_step /
\* stop_step on the container was start_step, and not at all otherwise.
C5_StepHookOncePerForward ==
    ForwardReturned =>
        /\ Cardinality(HookAt) =
              IF toggle = "start" /\ HasAttr(pre[1], "step_once") THEN 1 ELSE 0
        /\ \A i \in HookAt : i > Len(tx)

C5_Witness ==
    /\ ForwardReturned
    /\ toggle = "start"
    /\ Len(tx) = 2
    /\ Cardinality(HookAt) = 1

\* C6: each lifecycle method of Spatial visits the children in sequence order,
\* calls the same-named method exactly once on every child that exposes it,
\* and neither calls nor changes a child that lacks it.
C6_SpatialVisitsInOrder ==
    (kind = "Spatial" /\ clast \in Methods) =>
        LET has == {i \in 1..Len(pre) : HasAttr(pre[i], clast)}
        IN  /\ cerr = "none"
            /\ Len(log) = Cardinality(has)
            /\ \A j \in 1..Len(log) :
                  /\ log[j][2] = clast
                  /\ log[j][1] \in has
                  /\ j > 1 => log[j - 1][1] < log[j][1]
            /\ Len(kids) = Len(pre)
            /\ \A i \in 1..Len(pre) :
                  kids[i] = IF i \in has THEN Invoke(pre[i], clast) ELSE pre[i]

C6_Witness ==
    /\ kind = "Spatial"
    /\ clast = "reset"
    /\ Len(kids) = 2
    /\ ~HasAttr(kids[1], "reset")
    /\ kids[1].st # Initial(kids[1])
    /\ HasAttr(kids[2], "reset")
    /\ pre[2].st # kids[2].st

\* C7: each lifecycle call of Container invokes the same-named method on every
\* one of its children (encoder, snn_model, decoder) that exposes it.
C7_ContainerReachesEveryChild ==
    (kind = "Container" /\ clast \in Methods) =>
        \A i \in 1..3 : HasAttr(pre[i], clast) => Called(i, clast)

\* C8: no lifecycle call on Spatial, Temporal or Container raises because a
\* child lacks the method or is None; the call returns normally and the
\* capable children are still invoked.
C8_MissingCapabilityIsSkipped ==
    clast \in Methods =>
        /\ cerr = "none"
        /\ \A i \in 1..Len(pre) : HasAttr(pre[i], clast) => Called(i, clast)

\* C10: constructing the Poisson or the Temporal encoder with max_value <=
\* min_value fails with an assertion error; every constructed encoder has
\* max_value > min_value, and every forward call divides by a positive range.
C10_InvertedRangeRejected ==
    /\ epc = "failed" => (eerr = "AssertionError" /\ RLe(emax, emin))
    /\ epc \in {"built", "loop"} => RGt(emax, emin)
    /\ ediv # NoDiv => RGt(ediv, I(0))

C10_Witness ==
    /\ epc = "failed"
    /\ ekind = "Temporal"
    /\ emax = emin
    /\ ediv # NoDiv
    /\ \E t \in 1..Len(ey) : \E i \in 1..Len(ey[t]) : ey[t][i] = I(1)

\* Temporal.forward ended because the inner module raised at timestep tt
InnerRaised ==
    kind = "Temporal" /\ clast = "forward" /\ pc = "idle" /\ cerr # "none" /\ tt < Len(tx)

\* what the call made before it ended: tt + 1 inner calls and nothing else
AbortedLog == log = [i \in 1..(tt + 1) |-> <<1, "forward", tx[i]>>]

\* what a failing inner call stores before it raises: SRM0Linear has updated
\* its trace with the slice when the linear map rejects it, a soma has
\* materialised its potential when the response stage divides by zero
LeftByFailure(c, prev, x) ==
    IF c.type = "SRM0Linear"
    THEN [prev EXCEPT !.s = T([j \in 1..Len(x.v) |->
                RAdd(RMul(RDiv(I(1), c.tau_m.v), At(prev.s, j)), x.v[j])], TRUE)]
    ELSE [prev EXCEPT !.u = IF IsT(prev.u) THEN prev.u
                            ELSE T([j \in 1..Len(x.v) |-> prev.u.v], FALSE)]

C23_QIFFollowsDocstringLaw ==
    (LastForwardReturned /\ cfg.type = "QIF" /\ RGt(cfg.u_c.v, cfg.u_rest.v)) =>
        \A i \in 1..Len(st.u.v) :
            (LawX(i) = I(0) /\ nout.v[i] = I(0)) =>
                /\ (RGt(LawH(i), cfg.u_rest.v) /\ RGt(cfg.u_c.v, LawH(i))) =>
                      (RGt(LawH(i), st.u.v[i]) /\ RGe(st.u.v[i], cfg.u_rest.v))
                /\ RGt(LawH(i), cfg.u_c.v) => RGt(st.u.v[i], LawH(i))

\* C24: Temporal.step_once() reads the flag toggled by start_step/stop_step:
\* called while the flag is disabled it does not invoke the inner module's
\* step_once, called while it is enabled it invokes it exactly once.
C24_StepOnceReadsFlag ==
    (kind = "Temporal" /\ clast = "step_once" /\ HasAttr(pre[1], "step_once")) =>
        Cardinality(HookAt) = IF sap THEN 1 ELSE 0

\* C25: for every T >= 0, T = 0 included, Temporal.forward raises only if the
\* inner module raises and returns an output of T slices; with T = 0 it makes
\* no inner call and still runs the step hook and the reset after the loop.
C25_AnyLengthReturns ==
    (kind = "Temporal" /\ clast = "forward" /\ pc = "idle" /\ ~InnerRaised) =>
        /\ cerr = "none"
        /\ Len(ty) = Len(tx)
        /\ Len(ForwardCalls) = Len(tx)
        /\ Called(1, "step_once") = (sap /\ HasAttr(pre[1], "step_once"))
        /\ Called(1, "reset") = (rap /\ HasAttr(pre[1], "reset"))

\* the state variable a forward call broadcasts its input against
Carried(s) == IF cfg.type = "SRM0Linear" THEN s.s ELSE s.u

\* C26: a forward call on IF, LIF, QIF, EIF, LIAF or SRM0Linear whose input
\* cannot be broadcast against the materialised state raises the tensor
\* engine's error and leaves every state variable as it was; once reset() has
\* put the placeholder back, every input is accepted, that one included.
C26_ShapeMismatchLeavesState ==
    (npc = "built" /\ nlast = "forward" /\ cfg.type \in ShapeTypes) =>
        /\ (IsT(Carried(npre)) /\ ~Compatible(Carried(npre), nx)) =>
              (nerr = "RuntimeError" /\ nout = NoVal /\ st = npre)
        /\ ~IsT(Carried(npre)) => (nerr = "none" /\ Len(Carried(st).v) = Len(nx.v))
        /\ nerr # "none" => (IsT(Carried(npre)) /\ ~Compatible(Carried(npre), nx))

C26_Witness ==
    /\ LastForwardReturned
    /\ cfg.type = "SRM0Linear"
    /\ nrej = nx
    /\ Len(nx.v) = 3
    /\ ~IsT(npre.s)
    /\ Len(st.s.v) = 3 /\ Len(st.r.v) = 3

\* C27: in a Temporal.forward call with the step flag and reset_after_process
\* both enabled, step_once runs strictly before reset: the hook finds the
\* neuron state the last timestep left, never the reset state, and reset is
\* the last thing the call does before it returns.
C27_HookBeforeReset ==
    (ForwardReturned /\ sap /\ rap
        /\ HasAttr(pre[1], "step_once") /\ HasAttr(pre[1], "reset")) =>
        \A ref \in {Manual(pre[1].cfg, pre[1].st, tx)} :
            /\ Len(log) = Len(tx) + 2
            /\ log[Len(tx) + 1] = <<1, "step_once", ref.st>>
            /\ log[Len(tx) + 2] = <<1, "reset", ref.st>>
            /\ kids[1].st = Initial(kids[1])

C27_Witness ==
    /\ ForwardReturned
    /\ sap /\ rap
    /\ Len(tx) = 2
    /\ Len(log) = 4
    /\ log[3][2] = "step_once"
    /\ log[3][3] # Initial(kids[1])
    /\ HasSpike(ty)
    /\ log[4][2] = "reset"
    /\ kids[1].st = Initial(kids[1])

\* the children whose module does not expose reset (a plain holder around a neuron)
Unexposed == {i \in 1..Len(pre) : "reset" \notin pre[i].caps}

\* C28: a neuron under a module that does not expose reset is not reached by
\* Spatial.reset, Temporal.reset or Container.reset; after Temporal.forward
\* with reset_after_process true it holds the potential the sequence left, and
\* the next forward call starts from it.
C28_ResetStopsAtUnexposedModule ==
    /\ (clast = "reset" /\ pc = "idle") =>
          \A i \in Unexposed : kids[i] = pre[i] /\ ~Called(i, "reset")
    /\ (ForwardReturned /\ rap /\ Unexposed = {1}) =>
          \A ref \in {Manual(pre[1].cfg, pre[1].st, tx)} :
              /\ ~Called(1, "reset")
              /\ kids[1].st = ref.st
              /\ ty = ref.outs

C28_Witness ==
    /\ ForwardReturned
    /\ rap
    /\ follows
    /\ Unexposed = {1}
    /\ kids[1].cfg = LIFCfg
    /\ pre[1].st # Initial(pre[1])
    /\ kids[1].st # Initial(kids[1])
    /\ kids[1].st # pre[1].st

SRM0NetworkStartsSilent ==
    (kind = "Temporal" /\ clast = "forward" /\ kids[1].cfg = SRM0Cfg
        /\ pre[1].st = Initial(pre[1]) /\ Len(result) >= 1) =>
        \A i \in 1..Len(result[1].v) : result[1].v[i] = I(0)

\* the largest value the trace of a synapse fed 0/1 spikes can approach
TraceBound(c) == RDiv(c.tau_m.v, RSub(c.tau_m.v, I(1)))

HardThresholdTypes == {"IF", "LIF", "QIF", "EIF", "Izhikevich", "LIAF"}

\* C31: for an RFR-family neuron with u_rest < u_threshold, after every forward
\* call each element of the stored potential is strictly below u_threshold:
\* it is u_rest where the unit fired and the sub-threshold post-response
\* value where it did not.
C31_StoredPotentialBelowThreshold ==
    (LastForwardReturned /\ cfg.type \in HardThresholdTypes /\ RestBelowThreshold) =>
        /\ IsT(st.u)
        /\ \A i \in 1..Len(st.u.v) :
              /\ ~RGe(st.u.v[i], cfg.u_threshold.v)
              /\ (cfg.type # "LIAF" /\ nout.v[i] = I(1)) => st.u.v[i] = cfg.u_rest.v
              /\ (cfg.type = "LIAF" /\ RGe(nout.v[i], RSub(cfg.u_threshold.v, cfg.u_rest.v)))
                    => st.u.v[i] = cfg.u_rest.v

C31_Witness ==
    /\ LastForwardReturned
    /\ cfg.type = "IF"
    /\ cfg.u_rest = F(R(-1, 2))
    /\ ~IsT(npre.u)
    /\ nx.v = <<R(3, 2), I(0)>>
    /\ nout.v = <<I(1), I(0)>>
    /\ st.u.v = <<R(-1, 2), R(-1, 2)>>

\* every element of a state variable is 0 (the float 0.0 of reset() included)
AllZero(a) == IF IsT(a) THEN \A i \in 1..Len(a.v) : a.v[i] = I(0) ELSE a.v = I(0)

\* the state reset() leaves an Izhikevich neuron in, at any shape
IzhAtRest(s) == AllZero(s.u) /\ AllZero(s.w)

\* C32: an Izhikevich neuron started from reset spikes at every timestep, for
\* any a and b, whenever every input element is >= u_threshold - 140: every
\* output of the run is all ones and the neuron is left with U = 0 and W = 0
\* after each step, as after construction and reset().
C32_IzhikevichAlwaysFires ==
    (npc = "built" /\ cfg.type = "Izhikevich" /\ nerr = "none" /\ AllAboveOnset) =>
        /\ IzhAtRest(st)
        /\ Len(nouts) = Len(nfed)
        /\ \A k \in 1..Len(nouts) :
              /\ Len(nouts[k].v) >= Len(nfed[k].v)
              /\ \A i \in 1..Len(nouts[k].v) : nouts[k].v[i] = I(1)
        /\ nlast = "forward" => (IsT(st.u) /\ IsT(st.w))

C32_Witness ==
    /\ npc = "built"
    /\ cfg.type = "Izhikevich"
    /\ cfg.a.v = R(1, 2)
    /\ cfg.b.v = I(-1)
    /\ nerr = "none"
    /\ Len(nfed) = 3
    /\ nfed[1].v = <<I(0)>>
    /\ nfed[2].v = <<I(-139), I(0)>>
    /\ nfed[3].v = <<I(0), I(-139)>>
    /\ nouts[3].v = <<I(1), I(1)>>
    /\ st.u.v = <<I(0), I(0)>>
    /\ st.w.v = <<I(0), I(0)>>

\* the step flag of every child is the one it had before the step
FlagsKept == \A i \in 1..Len(kids) : kids'[i].flag = kids[i].flag

\* C33: start_step and stop_step on Spatial, Temporal and Container leave
\* every neuron state variable unchanged; reset on any container leaves the
\* step flags unchanged; a forward call leaves step_after_process and
\* reset_after_process unchanged; the step flag changes only through
\* start_step and stop_step, which set it to true and to false.
C33_HooksKeepStateCallsKeepFlags ==
    [][/\ Len(kids') = Len(kids)
       /\ clast' \in {"start_step", "stop_step"} =>
              \A i \in 1..Len(kids) : kids'[i].st = kids[i].st
       /\ clast' = "reset" => (sap' = sap /\ rap' = rap /\ FlagsKept)
       /\ clast' = "forward" => (sap' = sap /\ rap' = rap /\ FlagsKept)
       /\ clast' = "step_once" => (sap' = sap /\ rap' = rap /\ FlagsKept)
       /\ sap' # sap =>
              (kind = "Temporal" /\ clast' \in {"start_step", "stop_step"})
       /\ (kind = "Temporal" /\ clast' = "start_step") => sap'
       /\ (kind = "Temporal" /\ clast' = "stop_step") => ~sap'
      ]_vars

C33_Witness ==
    /\ kind = "Temporal"
    /\ ~rap
    /\ pc = "idle"
    /\ clast = "start_step"
    /\ sap
    /\ kids[1].cfg = LIFCfg
    /\ IsT(kids[1].st.u)
    /\ kids[1].st.u.v[1] = R(3, 4)
    /\ kids[1].st = pre[1].st
    /\ kids[1].flag /\ ~pre[1].flag

\* element i of a value, as a tensor of one element; a float stays a float
OnlyElem(a, i) == IF IsT(a) THEN T(<<At(a, i)>>, a.att) ELSE a

\* the last forward call made on element i alone: the same neuron holding only
\* element i of its state is fed only element i of the input
Solo(i) ==
    forward(cfg, [npre EXCEPT !.u = OnlyElem(@, i), !.w = OnlyElem(@, i)],
            T(<<At(nx, i)>>, nx.att))

\* C34: the update of a soma neuron is elementwise: the output and the stored
\* potential of element i after a forward call are those of the same call
\* made on element i alone, so they depend only on element i of the state
\* and of the input, and by induction only on the inputs fed to element i.
C34_ElementwiseUpdate ==
    (LastForwardReturned /\ cfg.type \in HardThresholdTypes) =>
        /\ Len(st.u.v) = Len(nout.v)
        /\ \A i \in 1..Len(nout.v) :
              \A solo \in {Solo(i)} :
                  /\ solo.err = "none"
                  /\ nout.v[i] = solo.out.v[1]
                  /\ st.u.v[i] = solo.st.u.v[1]
                  /\ cfg.type = "Izhikevich" => At(st.w, i) = solo.st.w.v[1]

C34_Witness ==
    /\ LastForwardReturned
    /\ cfg.type = "LIF"
    /\ cfg.tau_m = F(I(2))
    /\ cfg.u_rest = F(I(0))
    /\ IsT(npre.u)
    /\ npre.u.v = <<R(3, 4), I(0)>>
    /\ nx.v = <<R(3, 2), R(3, 2)>>
    /\ nout.v = <<I(1), I(0)>>
    /\ st.u.v = <<I(0), R(3, 4)>>

\* what stage i of a Container makes of the value v: the forward of its module
\* on the state the call found it in, or v itself where the stage is None
StageOut(i, v) == IF pre[i].present THEN forward(pre[i].cfg, pre[i].st, v).out ELSE v
StageSt(i, v) == IF pre[i].present THEN forward(pre[i].cfg, pre[i].st, v).st ELSE pre[i].st

\* the stages of the last call that are not None, in the order of the call
StagesRun == {i \in 1..3 : pre[i].present}
StageRank(i) == Cardinality({j \in StagesRun : j <= i})

\* C35: Container.forward applies the encoder, then the snn_model, then the
\* decoder, each to the result of the stage before it; a stage that is None
\* is skipped, with all three None the input comes back unchanged, and the
\* call makes no reset and runs no step hook.
C35_ContainerForwardOrder ==
    (kind = "Container" /\ clast = "forward" /\ cerr = "none") =>
        \A a \in {StageOut(1, tx[1])} : \A b \in {StageOut(2, a)} :
            /\ ty = <<StageOut(3, b)>>
            /\ kids[1].st = StageSt(1, tx[1])
            /\ kids[2].st = StageSt(2, a)
            /\ kids[3].st = StageSt(3, b)
            /\ Len(log) = Cardinality(StagesRun)
            /\ \A i \in StagesRun :
                  log[StageRank(i)] =
                      <<i, "forward", CASE i = 1 -> tx[1] [] i = 2 -> a [] OTHER -> b>>
            /\ \A i \in 1..3 :
                  /\ kids[i].flag = pre[i].flag
                  /\ kids[i].present = pre[i].present
            /\ StagesRun = {} => ty = tx

C35_Witness ==
    /\ kind = "Container"
    /\ clast = "forward"
    /\ cerr = "none"
    /\ ~pre[1].present /\ pre[2].present /\ pre[3].present
    /\ tx[1].v = <<R(3, 2)>>
    /\ Len(log) = 2
    /\ log[1] = <<2, "forward", tx[1]>>
    /\ log[2][1] = 3
    /\ log[2][3].v = <<I(1)>>
    /\ kids[2].st.u.v = <<I(0)>>
    /\ kids[3].st.u.v = <<R(1, 2)>>
    /\ ty[1].v = <<I(0)>>

\* the onset of element i in the last forward call of the encoder:
\* time_steps * (x - min_value) / (max_value - min_value)
Onset(i) == RMul(I(esteps), RDiv(RSub(eraw[i], emin), RSub(emax, emin)))

\* C36: the Temporal encoder emits time_steps frames, and frame t (counted
\* from 0) is 0 for every element whose onset time_steps * (x - min_value) /
\* (max_value - min_value) is still ahead of t; a 1 appears only at or after
\* the onset, so an element equal to max_value never spikes.
C36_NoSpikeBeforeOnset ==
    (ekind = "Temporal" /\ epc \in {"built", "loop"} /\ eraw # <<>>) =>
        /\ Len(eseq) <= esteps
        /\ \A t \in 1..Len(eseq) :
              /\ Len(eseq[t]) = Len(eraw)
              /\ \A i \in 1..Len(eraw) :
                    /\ eseq[t][i] \in {I(0), I(1)}
                    /\ RGt(Onset(i), I(t - 1)) => eseq[t][i] = I(0)
                    /\ eraw[i] = emax => eseq[t][i] = I(0)
        /\ ey # NoOut => (ey = eseq /\ Len(ey) = esteps)

C36_Witness ==
    /\ ekind = "Temporal"
    /\ epc = "built"
    /\ esteps = 2
    /\ emin = I(1)
    /\ emax = I(2)
    /\ eraw = <<R(3, 2), I(0)>>
    /\ ey = << <<I(0), I(1)>>, <<I(1), I(0)>> >>

\* the input of the last call holds only spikes
BinaryInput == \A i \in 1..Len(nx.v) : nx.v[i] \in {I(0), I(1)}

\* the positions of pooling window j of the last call, and how many hold a 1
WindowAt(j) == {(j - 1) * cfg.kernel_size + e : e \in 1..cfg.kernel_size}
OnesIn(j) == Cardinality({p \in WindowAt(j) : nx.v[p] = I(1)})

\* C37: val_to_spike maps an element to 1 if it is >= 0.5 and to 0 otherwise;
\* an average-pooling layer fed spikes outputs 1 exactly when at least half
\* of the spikes of its window are 1; on a tensor of spikes val_to_spike
\* changes nothing, so Flatten and Unflatten return the spikes they were
\* given and MaxPool returns the maximum of each window.
C37_ValToSpikeThreshold ==
    (LastForwardReturned /\ cfg.type \in LayerTypes) =>
        /\ cfg.type \in {"Flatten", "Unflatten"} =>
              /\ Len(nout.v) = Len(nx.v)
              /\ \A i \in 1..Len(nx.v) :
                    nout.v[i] = IF RGe(nx.v[i], R(1, 2)) THEN I(1) ELSE I(0)
              /\ BinaryInput => nout.v = nx.v
        /\ cfg.type \in {"MaxPool1d", "AvgPool1d"} =>
              Len(nout.v) = Len(nx.v) \div cfg.kernel_size
        /\ (cfg.type = "AvgPool1d" /\ BinaryInput) =>
              \A j \in 1..Len(nout.v) :
                  nout.v[j] = IF 2 * OnesIn(j) >= cfg.kernel_size THEN I(1) ELSE I(0)
        /\ (cfg.type = "MaxPool1d" /\ BinaryInput) =>
              \A j \in 1..Len(nout.v) :
                  nout.v[j] = IF OnesIn(j) >= 1 THEN I(1) ELSE I(0)
        /\ cfg.type = "MaxPool1d" =>
              \A j \in 1..Len(nout.v) :
                  nout.v[j] = IF \E p \in WindowAt(j) : RGe(nx.v[p], R(1, 2))
                              THEN I(1) ELSE I(0)

C37_Witness ==
    /\ LastForwardReturned
    /\ cfg.type = "AvgPool1d"
    /\ cfg.kernel_size = 2
    /\ nx.v = <<I(1), I(0)>>
    /\ nout.v = <<I(1)>>

\* the last call was forward on the base PFH skeleton with an input that
\* broadcasts against the stored potential
PFHCalled ==
    /\ npc = "built"
    /\ cfg.type = "PFH"
    /\ nlast = "forward"
    /\ Compatible(npre.u, nx)

\* C38: forward on the base PFH skeleton raises NotImplementedError and
\* returns nothing, and the stored potential is by then h + (1/tau_m) * x
\* (h the potential before the call): the failing call has changed the state.
C38_PFHForwardRaisesAfterStore ==
    PFHCalled =>
        /\ nerr = "NotImplementedError"
        /\ nout = NoVal
        /\ IsT(st.u)
        /\ Len(st.u.v) = Max2(ShapeOf(npre.u), Len(nx.v))
        /\ \A i \in 1..Len(st.u.v) :
              st.u.v[i] = RAdd(LawH(i), RMul(RDiv(I(1), cfg.tau_m.v), LawX(i)))
        /\ ((\E i \in 1..Len(nx.v) : nx.v[i] # I(0)) \/ ~IsT(npre.u)) => st.u # npre.u

C38_Witness ==
    /\ PFHCalled
    /\ cfg.tau_m = F(I(2))
    /\ npre.u = F(R(-1, 2))
    /\ nx.v = <<R(3, 2), I(0)>>
    /\ nerr = "NotImplementedError"
    /\ st.u.v = <<R(1, 4), R(-1, 2)>>

====
